---------------------------- MODULE Spec2Model ----------------------------
(***************************************************************************)
(* Expense tracker chat bot: the per-user pending-operation workflow       *)
(* (edit / delete of a Ledger row) of src/commands/commandHandler.js over  *)
(* the spreadsheet access of src/services/expenseEditorService.js and      *)
(* src/services/reportService.js.                                          *)
(*                                                                         *)
(* Texts are sequences of one-character strings, so that the string        *)
(* conversions of the code (toLowerCase, trim, split, parseInt,            *)
(* parseFloat, replace) are computed rather than assumed.  Amounts are     *)
(* integers in thousandths (10.005 is 10005), compared exactly; the        *)
(* binary rounding of IEEE doubles is not modelled.                        *)
(***************************************************************************)
EXTENDS Integers, Sequences, FiniteSets, TLC

(***************************************************************************)
(* Characters and the JavaScript string functions the handlers use.        *)
(***************************************************************************)
UpperChars == <<"A","B","C","D","E","F","G","H","I","J","K","L","M",
                "N","O","P","Q","R","S","T","U","V","W","X","Y","Z">>

LowerChars == <<"a","b","c","d","e","f","g","h","i","j","k","l","m",
                "n","o","p","q","r","s","t","u","v","w","x","y","z">>

DigitChars == <<"0","1","2","3","4","5","6","7","8","9">>

Range(f) == { f[i] : i \in DOMAIN f }

Uppers == Range(UpperChars)

Lowers == Range(LowerChars)

Digits == Range(DigitChars)

\* \s of a JavaScript regular expression and the white space of trim()
Spaces == {" "}

IsUpper(c) == c \in Uppers

IsLetter(c) == c \in Uppers \/ c \in Lowers

IsDigit(c) == c \in Digits

IsSpace(c) == c \in Spaces

DigitValues ==
  [c \in Digits |-> (CHOOSE i \in DOMAIN DigitChars : DigitChars[i] = c) - 1]

DigitVal(c) == DigitValues[c]

LowerOf ==
  [c \in Uppers |-> LowerChars[CHOOSE i \in DOMAIN UpperChars : UpperChars[i] = c]]

LowerChar(c) == IF IsUpper(c) THEN LowerOf[c] ELSE c

\* String.prototype.toLowerCase
toLowerCase(s) == [i \in DOMAIN s |-> LowerChar(s[i])]

\* s.slice(from) with 0-based from
SliceFrom(s, from) == SubSeq(s, from + 1, Len(s))

\* String.prototype.trim
RECURSIVE trimStart(_)
trimStart(s) ==
  IF s # <<>> /\ IsSpace(Head(s)) THEN trimStart(Tail(s)) ELSE s

RECURSIVE trimEnd(_)
trimEnd(s) ==
  IF s # <<>> /\ IsSpace(s[Len(s)])
    THEN trimEnd(SubSeq(s, 1, Len(s) - 1))
    ELSE s

trim(s) == trimEnd(trimStart(s))

\* s.startsWith(p)
startsWith(s, p) == Len(s) >= Len(p) /\ SubSeq(s, 1, Len(p)) = p

\* s.replace(/[$,]/g, '')
stripCurrency(s) == SelectSeq(s, LAMBDA c : c \notin {"$", ","})

\* the length of the longest prefix of s made of characters of the set S
RECURSIVE PrefixIn(_, _)
PrefixIn(s, S) ==
  IF s # <<>> /\ Head(s) \in S THEN 1 + PrefixIn(Tail(s), S) ELSE 0

\* the length of the longest prefix of s made of characters outside S
RECURSIVE PrefixNotIn(_, _)
PrefixNotIn(s, S) ==
  IF s # <<>> /\ Head(s) \notin S THEN 1 + PrefixNotIn(Tail(s), S) ELSE 0

\* the value of a sequence of decimal digits
RECURSIVE DigitsVal(_)
DigitsVal(ds) ==
  IF ds = <<>> THEN 0
  ELSE DigitsVal(SubSeq(ds, 1, Len(ds) - 1)) * 10 + DigitVal(ds[Len(ds)])

\* A parsed number is <<v>>; NaN is the empty sequence
NaN == << >>

isNaN(r) == r = << >>

Num(v) == << v >>

Val(r) == r[1]

\* parseInt(s): leading white space, an optional sign, then the longest run
\* of digits; NaN when there is no digit there
parseInt(s) ==
  LET t    == trimStart(s)
      neg  == t # <<>> /\ Head(t) = "-"
      sgn  == t # <<>> /\ Head(t) \in {"-", "+"}
      body == IF sgn THEN Tail(t) ELSE t
      n    == PrefixIn(body, Digits)
      v    == DigitsVal(SubSeq(body, 1, n))
  IN  IF n = 0 THEN NaN ELSE IF neg THEN Num(0 - v) ELSE Num(v)

\* the first three fraction digits as thousandths
Thousandths(fr) ==
  LET d(i) == IF i <= Len(fr) THEN DigitVal(fr[i]) ELSE 0
  IN  d(1) * 100 + d(2) * 10 + d(3)

\* parseFloat(s), in thousandths: leading white space, an optional sign,
\* digits, an optional fraction; NaN when no number starts the text.
\* (Texts of the model carry at most three fraction digits and no exponent.)
parseFloat(s) ==
  LET t    == trimStart(s)
      neg  == t # <<>> /\ Head(t) = "-"
      sgn  == t # <<>> /\ Head(t) \in {"-", "+"}
      body == IF sgn THEN Tail(t) ELSE t
      n    == PrefixIn(body, Digits)
      rest == SubSeq(body, n + 1, Len(body))
      dot  == rest # <<>> /\ Head(rest) = "."
      m    == IF dot THEN PrefixIn(Tail(rest), Digits) ELSE 0
      v    == DigitsVal(SubSeq(body, 1, n)) * 1000
                + Thousandths(SubSeq(rest, 2, m + 1))
  IN  IF n = 0 /\ m = 0 THEN NaN ELSE IF neg THEN Num(0 - v) ELSE Num(v)

\* s.split(/\s+/): the maximal runs of non-space characters, with an empty
\* first (last) element when s starts (ends) with white space
RECURSIVE splitWs(_)
splitWs(s) ==
  LET n == PrefixNotIn(s, Spaces)
      r == SubSeq(s, n + 1, Len(s))
      k == PrefixIn(r, Spaces)
  IN  IF r = <<>> THEN << SubSeq(s, 1, n) >>
      ELSE << SubSeq(s, 1, n) >> \o splitWs(SubSeq(r, k + 1, Len(r)))

\* s.split(sep) for a one-character separator
RECURSIVE splitOn(_, _)
splitOn(s, sep) ==
  LET n == PrefixNotIn(s, {sep})
  IN  IF n = Len(s) THEN << s >>
      ELSE << SubSeq(s, 1, n) >> \o splitOn(SubSeq(s, n + 2, Len(s)), sep)

Abs(x) == IF x < 0 THEN 0 - x ELSE x

(***************************************************************************)
(* Texts the users send.                                                   *)
(***************************************************************************)
T_yes == <<"y","e","s">>

T_Yes == <<"Y","e","s">>

T_no == <<"n","o">>

T_ok == <<"o","k">>

T_1 == <<"1">>

T_2 == <<"2">>

T_3 == <<"3">>

T_2x == <<"2","x">>

T_30 == <<"3","0">>

T_money == <<"$","1",",","0","0","0">>

T_amount == <<"a","m","o","u","n","t">>

T_Amount == <<"A","m","o","u","n","t">>

T_category == <<"c","a","t","e","g","o","r","y">>

T_date == <<"d","a","t","e">>

T_description == <<"d","e","s","c","r","i","p","t","i","o","n">>

T_Fuel == <<" ","F","u","e","l">>

T_food == <<"f","o","o","d">>

T_Food == <<"F","o","o","d">>

T_Taxi == <<"T","a","x","i">>

T_delete == <<"!","d","e","l","e","t","e"," ","f","o","o","d"," ","1","0">>

T_deleteTaxi == <<"!","d","e","l","e","t","e"," ","T","a","x","i"," ","$","5">>

T_edit == <<"!","e","d","i","t"," ","f","o","o","d"," ","1","0">>

\* dates of the stored records: two inside the 30-day window, one before it
D_1May == <<"0","1","/","0","5","/","2","0","2","5">>

D_2May == <<"0","2","/","0","5","/","2","0","2","5">>

D_1Jan == <<"0","1","/","0","1","/","2","0","2","5">>

T_Uncategorized == <<"U","n","c","a","t","e","g","o","r","i","z","e","d">>

T_Other == <<"O","t","h","e","r">>

\* the date of a message that carries no date token: the present day as
\* DD/MM/YYYY
TodayText == <<"0","5","/","0","5","/","2","0","2","5">>

T_enhanced == <<"m","o","r","e">>

T_No == <<"N","o">>

T_food10 == <<"F","o","o","d"," ","1","0">>

T_minus5 == <<"-","5">>

T_budgetSet ==
  <<"!","b","u","d","g","e","t"," ","f","o","o","d"," ","2","0","0">>

T_budgetCheck == <<"!","b","u","d","g","e","t"," ","F","o","o","d">>

T_budgetTaxi ==
  <<"!","b","u","d","g","e","t"," ","t","a","x","i"," ","$","5","0">>

T_recent == <<"!","r","e","c","e","n","t">>

T_recent2 == T_recent \o <<" ","2">>

T_recent0 == T_recent \o <<" ","0">>

T_recentMinus1 == T_recent \o <<" ","-","1">>

T_hello == <<"h","e","l","l","o"," ","t","h","e","r","e">>

T_45 == <<"$","4","5">>

T_Rent == <<"R","e","n","t">>

D_4May == <<"0","4","/","0","5","/","2","0","2","5">>

\* an expense message with a date token
T_rent3May == <<"R","e","n","t"," ","$","8","0","0"," ",
                "0","3","/","0","5","/","2","0","2","5">>

T_rent13May == <<"R","e","n","t"," ","$","8","0","0"," ",
                 "1","3","/","0","5","/","2","0","2","5">>

\* new Date().toISOString() of the append
T_now == <<"n","o","w">>

(***************************************************************************)
(* Calendar dates.  A stored date is a text; parseISTDateString reads it   *)
(* as day, month, year and the JavaScript Date constructor turns that into *)
(* a day (here: the number of days since 1970-01-01).                      *)
(***************************************************************************)
\* days since 1970-01-01 of the proleptic Gregorian date y-m-d, 1 <= m <= 12
DaysFromCivil(y, m, d) ==
  LET yy  == IF m <= 2 THEN y - 1 ELSE y
      era == yy \div 400
      yoe == yy - era * 400
      mp  == IF m > 2 THEN m - 3 ELSE m + 9
      doy == (153 * mp + 2) \div 5 + d - 1
      doe == yoe * 365 + yoe \div 4 - yoe \div 100 + doy
  IN  era * 146097 + doe - 719468

\* new Date(year, monthIndex, day): years 0..99 are 1900..1999, a month index
\* or a day out of range carries over
JsDate(year, monthIndex, day) ==
  LET y0 == IF year >= 0 /\ year <= 99 THEN 1900 + year ELSE year
      y  == y0 + monthIndex \div 12
      m  == (monthIndex % 12) + 1
  IN  DaysFromCivil(y, m, 1) + day - 1

\* Number(text) for the integer texts a date holds: "" is 0, a run of digits
\* its value, anything else NaN
ToNumber(s) ==
  LET t == trim(s)
  IN  IF t = << >> THEN Num(0)
      ELSE IF PrefixIn(t, Digits) = Len(t) THEN Num(DigitsVal(t))
      ELSE NaN

\* parseISTDateString: null (here NaN as well as an Invalid Date, both of
\* which fail every comparison) or the day of the date
parseISTDateString(dateStr) ==
  LET parts == IF "/" \in Range(dateStr) THEN splitOn(dateStr, "/")
                                         ELSE splitOn(dateStr, "-")
  IN  IF dateStr = << >> \/ Len(parts) # 3 THEN NaN
      ELSE LET d == ToNumber(parts[1])
               m == ToNumber(parts[2])
               y == ToNumber(parts[3])
           IN  IF isNaN(d) \/ isNaN(m) \/ isNaN(y) THEN NaN
               ELSE Num(JsDate(Val(y), Val(m) - 1, Val(d)))

(***************************************************************************)
(* The Ledger: Sheet1 of the spreadsheet.  `sheet` holds the rows below    *)
(* the header row, so sheet[j] is the row the Sheets API numbers j + 1.    *)
(* A row is its cells plus `id`, which no code reads: it names the record  *)
(* so that "the same record" can be told from "the same row number".       *)
(* `len` is the number of cells the API returns for the row (0 for a row   *)
(* left blank).                                                            *)
(***************************************************************************)
NoText == << >>

BlankRow ==
  [len |-> 0, id |-> 0, date |-> NoText, category |-> NoText, amount |-> 0,
   description |-> NoText, timestamp |-> NoText]

MkRow(i, d, c, a, desc, ts) ==
  [len |-> 5, id |-> i, date |-> d, category |-> c, amount |-> a,
   description |-> desc, timestamp |-> ts]

\* an expense object, as fetchRecentExpenses builds it from a row
NoExpense ==
  [id |-> 0, date |-> NoText, category |-> NoText, amount |-> 0,
   description |-> NoText, timestamp |-> NoText]

ExpenseOfRow(row) ==
  [id |-> row.id, date |-> row.date, category |-> row.category,
   amount |-> row.amount, description |-> row.description,
   timestamp |-> row.timestamp]

\* the date the handlers run on
Today == DaysFromCivil(2025, 5, 5)

\* expenseDate && expenseDate >= dateThreshold, where dateThreshold is the
\* present instant moved `days` days back and expenseDate is a midnight:
\* the days after Today - days
InWindow(dateStr, days) ==
  LET d == parseISTDateString(dateStr)
  IN  ~isNaN(d) /\ Val(d) > Today - days

\* fetchRecentExpenses(days) on the rows read: the rows of at least three
\* cells dated in the window, in sheet order
fetchRecentExpenses(rows, days) ==
  LET keep(row) == row.len >= 3 /\ InWindow(row.date, days)
      kept == SelectSeq(rows, keep)
  IN  [i \in DOMAIN kept |-> ExpenseOfRow(kept[i])]

\* Math.abs(a - b) < 0.01, in thousandths
AmountTolerance == 10

AmountMatch(a, b) == Abs(a - b) < AmountTolerance

\* the filter of findExpense; `date` is NoText when the command gave none
ExpenseMatches(expense, category, amount, date) ==
  LET categoryMatch == toLowerCase(expense.category) = toLowerCase(category)
      amountMatch   == AmountMatch(expense.amount, amount)
  IN  IF date # NoText
        THEN categoryMatch /\ amountMatch /\ expense.date = date
        ELSE categoryMatch /\ amountMatch

filterExpenses(recent, category, amount, date) ==
  SelectSeq(recent, LAMBDA e : ExpenseMatches(e, category, amount, date))

\* the inner test of findMatchingRowNumbers
RowMatches(row, expense) ==
  /\ row.len >= 3
  /\ row.date = expense.date
  /\ toLowerCase(row.category) = toLowerCase(expense.category)
  /\ AmountMatch(row.amount, expense.amount)

\* the inner loop of findMatchingRowNumbers: the numbers of the rows that
\* match one expense, in sheet order
RowNumbersOf(rows, expense) ==
  LET numbers == [j \in DOMAIN rows |-> j + 1]
  IN  SelectSeq(numbers, LAMBDA n : RowMatches(rows[n - 1], expense))

\* findMatchingRowNumbers: for each expense in turn, every row matching it
RECURSIVE findMatchingRowNumbers(_, _)
findMatchingRowNumbers(rows, expenses) ==
  IF expenses = << >> THEN << >>
  ELSE RowNumbersOf(rows, Head(expenses))
         \o findMatchingRowNumbers(rows, Tail(expenses))

\* what deleteDimension does to the rows: row number n is removed and the
\* rows below move up; a number below the last row removes a blank row
SheetDelete(rows, n) ==
  IF n >= 2 /\ n - 1 <= Len(rows)
    THEN SubSeq(rows, 1, n - 2) \o SubSeq(rows, n, Len(rows))
    ELSE rows

\* what values.update of A<n>:E<n> does: the cells of row n are overwritten;
\* a row below the last one is written in place, blank rows filling the gap
RECURSIVE PadTo(_, _)
PadTo(rows, k) ==
  IF Len(rows) >= k THEN rows ELSE PadTo(Append(rows, BlankRow), k)

SheetUpdate(rows, n, cells) ==
  [PadTo(rows, n - 1) EXCEPT ![n - 1] = cells]

\* a variant of the row editExpense writes that leaves the timestamp cell
\* empty
CellsOfUnstamped(rows, n, expenseData) ==
  [len |-> 5,
   id |-> IF n - 1 <= Len(rows) /\ rows[n - 1].id # 0
            THEN rows[n - 1].id ELSE expenseData.id,
   date |-> expenseData.date, category |-> expenseData.category,
   amount |-> expenseData.amount, description |-> expenseData.description,
   timestamp |-> NoText]

\* the row editExpense writes: date, category, amount, description || "",
\* timestamp || ""; the record written over row n keeps that row's identity
CellsOf(rows, n, expenseData) ==
  [len |-> 5,
   id |-> IF n - 1 <= Len(rows) /\ rows[n - 1].id # 0
            THEN rows[n - 1].id ELSE expenseData.id,
   date |-> expenseData.date, category |-> expenseData.category,
   amount |-> expenseData.amount, description |-> expenseData.description,
   timestamp |-> expenseData.timestamp]

\* the record a row number designates (0: none)
IdAt(rows, n) ==
  IF n >= 2 /\ n - 1 <= Len(rows) THEN rows[n - 1].id ELSE 0

(***************************************************************************)
(* State.                                                                  *)
(***************************************************************************)
VARIABLES
  sheet,              \* the Ledger rows below the header
  pendingOperations,  \* user -> the pending operation (NoOp: no entry)
  inv,                \* handler invocations in flight: slot -> its state
  done,               \* the invocations that returned in the last step
  budget,             \* messages the users may still send
  faults,             \* Ledger calls that may still fail
  gemini,             \* isGeminiAvailable()
  expired,            \* user -> the deadline of the pending entry has passed
  budgets,            \* budgetService: category key -> the budget set for it
  input,              \* the argument a function is applied to
  output              \* what the function returned for it

vars == << sheet, pendingOperations, inv, done, budget, faults, gemini,
          expired, budgets, input, output >>

\* budgets.json: a set of entries, one for a category key; no category has
\* a budget
NoBudgets == {}

\* the variables of a function application, which no handler touches
applied == << input, output >>

\* the variables of the handlers, which no function application touches
handled == << sheet, pendingOperations, inv, done, budget, faults, gemini,
             expired, budgets >>

\* most handler invocations in flight at once
MaxInv == 2

Slots == 1 .. MaxInv

Users == {"alice", "bob"}

\* an entry of pendingOperations.  The code's objects carry `type` and,
\* by type, rowNumber, expenseData, expenses, rows, field.  `shown` and
\* `picked` are not in the code: the id of the record the prompt displayed
\* and the index the user picked it by (0: the lookup found it alone).
NoOp ==
  [type |-> "none", rowNumber |-> 0, expenseData |-> NoExpense,
   expenses |-> << >>, rows |-> << >>, field |-> NoText, shown |-> 0,
   picked |-> 0]

\* rows[index] of a JavaScript array: undefined (here 0) outside the array
ArrayAt(rows, index) ==
  IF index >= 0 /\ index < Len(rows) THEN rows[index + 1] ELSE 0

DeleteConfirmOp(rowNumber, expense, k) ==
  [NoOp EXCEPT !.type = "delete_confirm", !.rowNumber = rowNumber,
               !.shown = expense.id, !.picked = k]

EditFieldOp(rowNumber, expense, k) ==
  [NoOp EXCEPT !.type = "edit_field", !.rowNumber = rowNumber,
               !.expenseData = expense, !.shown = expense.id, !.picked = k]

SelectOp(type, expenses, rows) ==
  [NoOp EXCEPT !.type = type, !.expenses = expenses, !.rows = rows]

\* a reply sent to the author: its kind and, for a selection prompt, the
\* count it announces and the number of candidates it lists
Reply(kind) == [kind |-> kind, count |-> 0, listed |-> 0]

ListReply(count, listed) ==
  [kind |-> "select_list", count |-> count, listed |-> listed]

\* a handler invocation.  pc is the await the invocation is suspended in.
\* calls and replies record what the invocation did; late: the message
\* arrived after the deadline of the entry it found.  recentExpenses and
\* potentialDuplicate are the locals of handleExpenseMessage; failed: a
\* Ledger read of the invocation threw; answer and answeredBy: the message
\* that resolved the collector of the invocation, and its author; insight:
\* whether categorizeExpense was called and how the call to the Insight
\* Service ended ("none", "answered", "failed"); limit: the argument of
\* showRecentExpenses; budgetAmount: the argument of analyzeBudget;
\* budgetsRead: the content of budgets.json as saveBudget read it.
IdleInv ==
  [pc |-> "idle", user |-> "", content |-> NoText, op |-> NoOp,
   cmd |-> NoText, category |-> NoText, amount |-> 0, date |-> NoText,
   expenses |-> << >>, expenseData |-> NoExpense, help |-> FALSE,
   late |-> FALSE, calls |-> << >>, replies |-> << >>,
   recentExpenses |-> << >>, potentialDuplicate |-> NoExpense,
   failed |-> FALSE, answer |-> NoText, answeredBy |-> "",
   insight |-> "none", limit |-> 0, budgetAmount |-> << >>,
   budgetsRead |-> {}]

\* a Ledger write an invocation made: the call, the row number passed, the
\* record that row held when the call ran, and whether the call succeeded
Call(kind, row, id, ok) == [kind |-> kind, row |-> row, id |-> id, ok |-> ok]

Free(s) == inv[s].pc = "idle"

\* the slot a new invocation takes: the lowest one not in flight
FreeSlot == CHOOSE s \in Slots : Free(s) /\ \A r \in Slots : Free(r) => s <= r

\* the invocation returns: what it did is kept, for the step it returns in
Finished(i) == [i EXCEPT !.pc = "done"]

\* the step leaves the invocations as in `next`: those that returned free
\* their slots
Commit(next) ==
  /\ inv' = [r \in Slots |-> IF next[r].pc = "done" THEN IdleInv ELSE next[r]]
  /\ done' = { next[r] : r \in { q \in Slots : next[q].pc = "done" } }

(***************************************************************************)
(* handlePendingOperation, up to its first await.                          *)
(***************************************************************************)
ValidFields == {T_category, T_amount, T_date, T_description}

\* what the switch of handlePendingOperation decides for the entry `op` and
\* the message text: the await the handler goes on to (done: it returns
\* after its reply), the entry it sets (set), the replies it sends, and the
\* record an edit is about to write
Decision(pc, set, pend, replies, expenseData) ==
  [pc |-> pc, set |-> set, pend |-> pend, replies |-> replies,
   expenseData |-> expenseData]

\* a variant of the delete_confirm case that compares the reply as typed
DeleteConfirmAsTyped(op, content) ==
  IF content = T_yes
    THEN Decision("del_call", FALSE, op, << >>, NoExpense)
  ELSE IF content = T_no
    THEN Decision("clear", FALSE, op, << Reply("canceled") >>, NoExpense)
  ELSE Decision("done", FALSE, op, << Reply("reprompt_yes_no") >>, NoExpense)

\* a variant of the delete_confirm case that deletes on every reply but "no"
DeleteConfirmEager(op, content) ==
  IF toLowerCase(content) = T_no
    THEN Decision("clear", FALSE, op, << Reply("canceled") >>, NoExpense)
    ELSE Decision("del_call", FALSE, op, << >>, NoExpense)

DeleteConfirmStep(op, content) ==
  LET response == toLowerCase(content)
  IN  IF response = T_yes
        THEN Decision("del_call", FALSE, op, << >>, NoExpense)
      ELSE IF response = T_no
        THEN Decision("clear", FALSE, op, << Reply("canceled") >>, NoExpense)
      ELSE Decision("done", FALSE, op, << Reply("reprompt_yes_no") >>,
                    NoExpense)

\* a variant of the edit_field case that compares the reply as typed
EditFieldAsTyped(op, content) ==
  IF content \in ValidFields
    THEN Decision("done", TRUE,
                  [op EXCEPT !.type = "edit_value", !.field = content],
                  << Reply("ask_value") >>, NoExpense)
    ELSE Decision("done", FALSE, op, << Reply("invalid_field") >>, NoExpense)

EditFieldStep(op, content) ==
  LET response == toLowerCase(content)
  IN  IF response \in ValidFields
        THEN Decision("done", TRUE,
                      [op EXCEPT !.type = "edit_value", !.field = response],
                      << Reply("ask_value") >>, NoExpense)
        ELSE Decision("done", FALSE, op, << Reply("invalid_field") >>,
                      NoExpense)

\* a variant of the edit_value case that parses the amount without removing
\* "$" and ","
EditValueUnstripped(op, content) ==
  LET data   == op.expenseData
      amount == parseFloat(content)
  IN  IF op.field = T_amount /\ isNaN(amount)
        THEN Decision("done", FALSE, op, << Reply("invalid_amount") >>,
                      NoExpense)
      ELSE Decision("edit_call", FALSE, op, << >>,
             IF op.field = T_category
               THEN [data EXCEPT !.category = trim(content)]
             ELSE IF op.field = T_amount
               THEN [data EXCEPT !.amount = Val(amount)]
             ELSE IF op.field = T_date
               THEN [data EXCEPT !.date = trim(content)]
             ELSE [data EXCEPT !.description = trim(content)])

EditValueStep(op, content) ==
  LET field  == op.field
      data   == op.expenseData
      amount == parseFloat(stripCurrency(content))
  IN  IF field = T_amount /\ isNaN(amount)
        THEN Decision("done", FALSE, op, << Reply("invalid_amount") >>,
                      NoExpense)
      ELSE Decision("edit_call", FALSE, op, << >>,
             IF field = T_category
               THEN [data EXCEPT !.category = trim(content)]
             ELSE IF field = T_amount
               THEN [data EXCEPT !.amount = Val(amount)]
             ELSE IF field = T_date
               THEN [data EXCEPT !.date = trim(content)]
             ELSE IF field = T_description
               THEN [data EXCEPT !.description = trim(content)]
             ELSE data)

SelectStep(op, content) ==
  LET response == toLowerCase(content)
      parsed   == parseInt(response)
      index    == IF isNaN(parsed) THEN 0 ELSE Val(parsed) - 1
  IN  IF isNaN(parsed) \/ index < 0 \/ index >= Len(op.expenses)
        THEN Decision("done", FALSE, op, << Reply("invalid_selection") >>,
                      NoExpense)
      ELSE LET expense   == op.expenses[index + 1]
               rowNumber == ArrayAt(op.rows, index)
           IN  IF op.type = "delete_select"
                 THEN Decision("done", TRUE,
                               DeleteConfirmOp(rowNumber, expense, index + 1),
                               << Reply("confirm_delete") >>, NoExpense)
                 ELSE Decision("done", TRUE,
                               EditFieldOp(rowNumber, expense, index + 1),
                               << Reply("ask_field") >>, NoExpense)

PendingStep(op, content) ==
  IF op.type = "delete_confirm" THEN DeleteConfirmStep(op, content)
  ELSE IF op.type = "edit_field" THEN EditFieldStep(op, content)
  ELSE IF op.type = "edit_value" THEN EditValueStep(op, content)
  ELSE SelectStep(op, content)

(***************************************************************************)
(* processMessage after handlePendingOperation returned false: the command *)
(* dispatch of handleCommand and the expense parser.                       *)
(***************************************************************************)
\* the length of a mention <@123> or <@!123> at the head of s, 0 if none
MentionLen(s) ==
  LET bang == Len(s) >= 3 /\ s[3] = "!"
      from == IF bang THEN 4 ELSE 3
      n    == PrefixIn(SubSeq(s, from, Len(s)), Digits)
  IN  IF /\ startsWith(s, <<"<", "@">>)
         /\ n >= 1
         /\ Len(s) >= from + n
         /\ s[from + n] = ">"
        THEN from + n
        ELSE 0

\* content.replace(/<@!?[0-9]+>/g, "")
RECURSIVE stripMentions(_)
stripMentions(s) ==
  IF s = << >> THEN s
  ELSE IF MentionLen(s) > 0
    THEN stripMentions(SubSeq(s, MentionLen(s) + 1, Len(s)))
  ELSE << Head(s) >> \o stripMentions(Tail(s))

\* a variant of the cleaning that leaves the mentions in
cleanKeepsMentions(content) == trim(content)

cleanContent(content) == trim(stripMentions(content))

PREFIX == <<"!">>

C_delete == <<"d","e","l","e","t","e">>

C_edit == <<"e","d","i","t">>

C_budget == <<"b","u","d","g","e","t">>

C_list == <<"l","i","s","t">>

C_recent == <<"r","e","c","e","n","t">>

\* the commands of handleCommand that only read and reply
OtherCommands ==
  { <<"h","e","l","p">>, <<"r","e","p","o","r","t">>,
    <<"b","u","d","g","e","t","s">>,
    <<"c","a","t","e","g","o","r","i","e","s">>,
    <<"s","u","m","m","a","r","y">>, <<"t","r","e","n","d","s">> }

\* Number(text) of a command argument: "" is 0, an optionally signed run of
\* digits its value, anything else NaN.  (The numeric arguments of the
\* model's commands are integers.)
NumberOf(s) ==
  LET t    == trim(s)
      sgn  == t # << >> /\ Head(t) \in {"-", "+"}
      body == IF sgn THEN Tail(t) ELSE t
  IN  IF t = << >> THEN Num(0)
      ELSE IF body # << >> /\ PrefixIn(body, Digits) = Len(body)
        THEN parseInt(t)
      ELSE NaN

\* an argument that was not given (undefined)
Undefined == << >>

\* the limit of showRecentExpenses when the command gives none
DefaultLimit == 5

\* handleCommand for the text after the prefix: the lookup an edit or
\* delete command starts (pc find1), the file read a budget command starts
\* (pc budget_read), the Ledger read a list command starts (pc recent_read),
\* or the reply it ends with
CommandStep(commandText) ==
  LET ends(command, kind) ==
        [pc |-> "done", cmd |-> command, category |-> NoText,
         amount |-> 0, date |-> NoText, replies |-> << Reply(kind) >>,
         limit |-> 0, budgetAmount |-> Undefined]
      lookup(args, command, amount) ==
        IF isNaN(amount) THEN ends(command, "invalid_amount")
        ELSE [ends(command, "none") EXCEPT
                !.pc = "find1", !.category = args[2], !.amount = Val(amount),
                !.date = IF Len(args) > 3 THEN args[4] ELSE NoText,
                !.replies = << >>]
      set(args, command, amount) ==
        IF args[2] = NoText \/ isNaN(amount)
          THEN ends(command, "budget_usage")
        ELSE [ends(command, "none") EXCEPT
                !.pc = "budget_read", !.category = args[2],
                !.budgetAmount = amount, !.replies = << >>]
      budgetOf(args, command) ==
        IF Len(args) >= 3
          THEN set(args, command, parseFloat(stripCurrency(args[3])))
        ELSE IF Len(args) = 2
          THEN [ends(command, "none") EXCEPT
                  !.pc = "budget_read", !.category = args[2],
                  !.replies = << >>]
        ELSE ends(command, "budget_usage")
      recent(args, command) ==
        [ends(command, "none") EXCEPT
           !.pc = "recent_read", !.replies = << >>,
           !.limit = IF Len(args) > 1 /\ ~isNaN(NumberOf(args[2]))
                       THEN Val(parseInt(args[2])) ELSE DefaultLimit]
      switch(args, command) ==
        IF command \in {C_delete, C_edit}
          THEN IF Len(args) < 3 THEN ends(command, "usage")
               ELSE lookup(args, command,
                           parseFloat(stripCurrency(args[3])))
        ELSE IF command = C_budget THEN budgetOf(args, command)
        ELSE IF command \in {C_list, C_recent} THEN recent(args, command)
        ELSE IF command \in OtherCommands
          THEN ends(command, "command_reply")
        ELSE ends(command, "unknown_command")
      handle(args) == switch(args, toLowerCase(args[1]))
  IN  handle(splitWs(commandText))

\* new Date(text) for a text a/b/c of three numbers: the engine reads it as
\* month/day/year (years below 50 are 20xx, below 100 19xx) and gives an
\* Invalid Date (NaN) for a month above 12 or a day above 31, as for any
\* other text of the model
JsDateParse(text) ==
  LET year(y) == IF y < 50 THEN 2000 + y
                 ELSE IF y < 100 THEN 1900 + y ELSE y
      date(m, d, y) ==
        IF isNaN(m) \/ isNaN(d) \/ isNaN(y) THEN NaN
        ELSE IF Val(m) < 1 \/ Val(m) > 12 \/ Val(d) < 1 \/ Val(d) > 31
          THEN NaN
        ELSE Num(JsDate(year(Val(y)), Val(m) - 1, Val(d)))
      read(parts) ==
        IF Len(parts) # 3 THEN NaN
        ELSE date(ToNumber(parts[1]), ToNumber(parts[2]), ToNumber(parts[3]))
  IN  read(splitOn(text, "/"))

\* \$?(\d+(?:\.\d{1,2})?) at the head of s: whether it matches, the amount
\* and the number of characters matched
AmountToken(s) ==
  LET dollar == s # << >> /\ Head(s) = "$"
      body   == IF dollar THEN Tail(s) ELSE s
      n      == PrefixIn(body, Digits)
      rest   == SubSeq(body, n + 1, Len(body))
      f      == IF rest # << >> /\ Head(rest) = "."
                  THEN PrefixIn(Tail(rest), Digits) ELSE 0
      m      == IF f > 2 THEN 2 ELSE f
  IN  [ok |-> n >= 1,
       amount |-> DigitsVal(SubSeq(body, 1, n)) * 1000
                    + Thousandths(SubSeq(rest, 2, m + 1)),
       len |-> (IF dollar THEN 1 ELSE 0) + n + (IF m > 0 THEN 1 + m ELSE 0)]

\* [0-9]{1,2}\/[0-9]{1,2}\/[0-9]{2,4} at the head of s: the number of
\* characters matched, 0 when it does not match.  (The date tokens of the
\* model's texts are of this form, the first of the three the pattern
\* accepts.)
DateTokenLen(s) ==
  LET a  == PrefixIn(s, Digits)
      r1 == SubSeq(s, a + 2, Len(s))
      b  == PrefixIn(r1, Digits)
      r2 == SubSeq(r1, b + 2, Len(r1))
      c  == PrefixIn(r2, Digits)
  IN  IF /\ a \in 1 .. 2 /\ Len(s) > a /\ s[a + 1] = "/"
         /\ b \in 1 .. 2 /\ Len(r1) > b /\ r1[b + 1] = "/"
         /\ c >= 2
        THEN a + 1 + b + 1 + (IF c > 4 THEN 4 ELSE c)
        ELSE 0

\* \s*(?:(date))? after the amount: the date token, NoText when there is none
DateStrAfter(s) ==
  LET t == trimStart(s)
  IN  SubSeq(t, 1, DateTokenLen(t))

LettersAndSpaces == Uppers \cup Lowers \cup Spaces

\* a variant of the category match that does not trim group 1
RECURSIVE CategoryMatchUntrimmed(_)
CategoryMatchUntrimmed(s) ==
  IF s = << >>
    THEN [ok |-> FALSE, category |-> NoText, amount |-> 0, dateStr |-> NoText]
  ELSE LET at(n, after, tok) ==
             IF n = 0 THEN CategoryMatchUntrimmed(Tail(s))
             ELSE IF n >= 2 /\ IsSpace(s[n]) /\ tok.ok
               THEN [ok |-> TRUE, category |-> SubSeq(s, 1, n - 1),
                     amount |-> tok.amount,
                     dateStr |-> DateStrAfter(SliceFrom(after, tok.len))]
             ELSE CategoryMatchUntrimmed(after)
           run(n) ==
             at(n, SubSeq(s, n + 1, Len(s)),
                AmountToken(SubSeq(s, n + 1, Len(s))))
       IN  run(PrefixIn(s, LettersAndSpaces))

\* the leftmost match of ([A-Za-z\s]+)\s+\$?(\d+...) in s: a maximal run of
\* letters and white space that ends in white space, holds a character
\* before it and is followed by an amount.  Group 1 is the run without its
\* last character; dateStr is the date token after the amount.
RECURSIVE CategoryMatch(_)
CategoryMatch(s) ==
  IF s = << >>
    THEN [ok |-> FALSE, category |-> NoText, amount |-> 0, dateStr |-> NoText]
  ELSE LET at(n, after, tok) ==
             IF n = 0 THEN CategoryMatch(Tail(s))
             ELSE IF n >= 2 /\ IsSpace(s[n]) /\ tok.ok
               THEN [ok |-> TRUE, category |-> trim(SubSeq(s, 1, n - 1)),
                     amount |-> tok.amount,
                     dateStr |-> DateStrAfter(SliceFrom(after, tok.len))]
             ELSE CategoryMatch(after)
           run(n) ==
             at(n, SubSeq(s, n + 1, Len(s)),
                AmountToken(SubSeq(s, n + 1, Len(s))))
       IN  run(PrefixIn(s, LettersAndSpaces))

\* a variant of the amount-only match that takes a text without an amount
\* as the amount 0
RECURSIVE AmountOrZero(_)
AmountOrZero(s) ==
  LET at(tok) ==
        IF tok.ok
          THEN [ok |-> TRUE, amount |-> tok.amount,
                dateStr |-> DateStrAfter(SliceFrom(s, tok.len))]
          ELSE AmountOrZero(Tail(s))
  IN  IF s = << >> THEN [ok |-> TRUE, amount |-> 0, dateStr |-> NoText]
                   ELSE at(AmountToken(s))

\* the leftmost match of \$?(\d+...) in s
RECURSIVE AmountOnlyMatch(_)
AmountOnlyMatch(s) ==
  LET at(tok) ==
        IF tok.ok
          THEN [ok |-> TRUE, amount |-> tok.amount,
                dateStr |-> DateStrAfter(SliceFrom(s, tok.len))]
          ELSE AmountOnlyMatch(Tail(s))
  IN  IF s = << >> THEN [ok |-> FALSE, amount |-> 0, dateStr |-> NoText]
                   ELSE at(AmountToken(s))

\* the year, month and day of the day number z (days since 1970-01-01)
CivilFromDays(z) ==
  LET zz  == z + 719468
      era == zz \div 146097
      doe == zz - era * 146097
      yoe == (doe - doe \div 1460 + doe \div 36524 - doe \div 146096) \div 365
      doy == doe - (365 * yoe + yoe \div 4 - yoe \div 100)
      mp  == (5 * doy + 2) \div 153
      d   == doy - (153 * mp + 2) \div 5 + 1
      m   == IF mp < 10 THEN mp + 3 ELSE mp - 9
  IN  [year |-> yoe + era * 400 + (IF m <= 2 THEN 1 ELSE 0),
       month |-> m, day |-> d]

\* n.toString() for n >= 0
RECURSIVE DecimalText(_)
DecimalText(n) ==
  IF n < 10 THEN << DigitChars[n + 1] >>
  ELSE DecimalText(n \div 10) \o << DigitChars[(n % 10) + 1] >>

\* s.padStart(2, "0")
padStart2(s) == IF Len(s) < 2 THEN << "0" >> \o s ELSE s

T_NaN == <<"N","a","N">>

\* formatDateToIST(date) for a date at a local midnight, which five and a
\* half hours later is the same local day: DD/MM/YYYY of that day, and
\* NaN/NaN/NaN for an Invalid Date
formatDateToIST(date) ==
  IF isNaN(date) THEN T_NaN \o << "/" >> \o T_NaN \o << "/" >> \o T_NaN
  ELSE LET c == CivilFromDays(Val(date))
       IN  padStart2(DecimalText(c.day)) \o << "/" >>
             \o padStart2(DecimalText(c.month)) \o << "/" >>
             \o DecimalText(c.year)

\* an instant is a number of minutes since 1970-01-01T00:00Z; a host's
\* local timezone is its offset from UTC in minutes
MinutesPerDay == 1440

\* 5.5 * 60 * 60 * 1000 milliseconds
IstOffset == 330

\* convertToIST: the instant five and a half hours later
convertToIST(t) == t + IstOffset

\* getDate(), getMonth() + 1 and getFullYear() of the instant t on a host
\* whose local timezone is tz: the day of the host's wall clock
LocalDay(t, tz) == (t + tz) \div MinutesPerDay

\* formatDateToIST(date) for the instant t on a host whose local timezone
\* is tz: the local getters are applied to the shifted instant
formatDateToISTOn(tz, t) == formatDateToIST(Num(LocalDay(convertToIST(t), tz)))

\* parseExpense: null (ok FALSE) or the record; its date is the date token
\* read by the Date constructor, the present day when there is no token
parseExpense(messageContent) ==
  LET dateOf(dateStr) ==
        IF dateStr # NoText THEN formatDateToIST(JsDateParse(dateStr))
                            ELSE TodayText
      record(cleaned, cm, am) ==
        IF cm.ok
          THEN [ok |-> TRUE, help |-> FALSE,
                data |-> [NoExpense EXCEPT !.category = cm.category,
                                           !.amount = cm.amount,
                                           !.description = cm.category,
                                           !.date = dateOf(cm.dateStr)]]
        ELSE IF am.ok
          THEN [ok |-> TRUE, help |-> TRUE,
                data |-> [NoExpense EXCEPT !.category = T_Uncategorized,
                                           !.amount = am.amount,
                                           !.description = cleaned,
                                           !.date = dateOf(am.dateStr)]]
        ELSE [ok |-> FALSE, help |-> FALSE, data |-> NoExpense]
      match(cleaned) ==
        record(cleaned, CategoryMatch(cleaned), AmountOnlyMatch(cleaned))
  IN  match(cleanContent(messageContent))

(***************************************************************************)
(* handleExpenseMessage between its awaits.                                *)
(***************************************************************************)
\* the description is short enough for enhanceExpenseDescription
Enhanceable(data) ==
  gemini /\ data.description # NoText /\ Len(data.description) < 10

\* from the categorisation (done or not needed) to the next await
AfterCategorize(i, data) ==
  [i EXCEPT !.expenseData = data,
            !.pc = IF Enhanceable(data) THEN "enhance" ELSE "append"]

\* a variant of the step after the duplicate check that sets no default
\* category when the Insight Service is unavailable
AfterDupCheckNoDefault(i) ==
  LET data  == i.expenseData
      needs == data.category = T_Uncategorized \/ i.help
  IN  IF needs /\ gemini
        THEN [i EXCEPT !.pc = "categorize",
                       !.replies = Append(@, Reply("analyzing"))]
      ELSE AfterCategorize(i, data)

\* from the duplicate check (passed, failed or confirmed) to the next await
AfterDupCheck(i) ==
  LET data  == i.expenseData
      needs == data.category = T_Uncategorized \/ i.help
  IN  IF needs /\ gemini
        THEN [i EXCEPT !.pc = "categorize",
                       !.replies = Append(@, Reply("analyzing"))]
      ELSE IF needs
        THEN AfterCategorize(i, [data EXCEPT !.category = T_Other])
      ELSE AfterCategorize(i, data)

\* a variant of the collector's filter without the test of the author
ConfirmsAnyAuthor(i, u, content) ==
  /\ i.pc = "dup_wait"
  /\ toLowerCase(content) \in {T_yes, T_no}

\* a variant of the collector's outcome that compares the answer as typed
CollectedAsTyped(i, content) ==
  IF content = T_no
    THEN Finished([i EXCEPT !.replies = Append(@, Reply("recording_canceled"))])
    ELSE AfterDupCheck(i)

\* the filter of the awaitMessages collector of handleExpenseMessage
Confirms(i, u, content) ==
  /\ i.pc = "dup_wait"
  /\ i.user = u
  /\ toLowerCase(content) \in {T_yes, T_no}

\* the collector resolves: "no" ends the handler, "yes" lets it go on
Collected(i, content) ==
  IF toLowerCase(content) = T_no
    THEN Finished([i EXCEPT !.replies = Append(@, Reply("recording_canceled"))])
    ELSE AfterDupCheck(i)

\* the message of author u passes the filter of the collector of i
Heard(i, u, content) ==
  Collected([i EXCEPT !.answer = content, !.answeredBy = u], content)

(***************************************************************************)
(* A message arrives: processMessage up to its first await on the network. *)
(***************************************************************************)
\* the invocation state after the synchronous part, for author u, text t,
\* the entry op read from pendingOperations
Started(u, t, op) ==
  LET base == [IdleInv EXCEPT !.user = u, !.content = t, !.op = op,
                              !.late = expired[u]]
      answer(d) ==
        [base EXCEPT !.pc = d.pc, !.replies = d.replies,
                     !.expenseData = d.expenseData]
      command(c) ==
        [base EXCEPT !.pc = c.pc, !.cmd = c.cmd, !.replies = c.replies,
                     !.category = c.category, !.amount = c.amount,
                     !.date = c.date, !.limit = c.limit,
                     !.budgetAmount = c.budgetAmount]
      expense(p) ==
        IF p.ok
          THEN [base EXCEPT !.pc = "dup_read", !.expenseData = p.data,
                            !.help = p.help]
          ELSE [base EXCEPT !.pc = "done",
                            !.replies = << Reply("cannot_parse") >>]
      fresh(clean) ==
        IF startsWith(clean, PREFIX)
          THEN command(CommandStep(trim(SliceFrom(clean, Len(PREFIX)))))
          ELSE expense(parseExpense(t))
  IN  IF op.type # "none" THEN answer(PendingStep(op, t))
                          ELSE fresh(cleanContent(t))

Receive(u, t) ==
  /\ budget > 0
  /\ \E s \in Slots : Free(s)
  /\ LET op == pendingOperations[u]
          take(d, started, s) ==
            /\ pendingOperations' =
                  IF op.type # "none" /\ d.set
                    THEN [pendingOperations EXCEPT ![u] = d.pend]
                    ELSE pendingOperations
            /\ expired' = IF op.type # "none" /\ d.set
                            THEN [expired EXCEPT ![u] = FALSE]
                            ELSE expired
            /\ Commit([r \in Slots |->
                         IF r = s
                           THEN IF started.pc = "done"
                                  THEN Finished(started)
                                  ELSE started
                         ELSE IF Confirms(inv[r], u, t)
                           THEN Heard(inv[r], u, t)
                         ELSE inv[r]])
     IN  take(PendingStep(op, t), Started(u, t, op), FreeSlot)
  /\ budget' = budget - 1
  /\ UNCHANGED << applied, budgets, sheet, faults, gemini >>

(***************************************************************************)
(* detectDuplicateExpense.                                                 *)
(***************************************************************************)
\* Math.abs(a - b) < 1, in thousandths
DupAmountTolerance == 1000

\* hoursDifference < 48
DupHours == 48

IsDuplicateOf(expense, newExpense) ==
  LET newDate     == JsDateParse(newExpense.date)
      expenseDate == JsDateParse(expense.date)
  IN  /\ expense.category = newExpense.category
      /\ Abs(expense.amount - newExpense.amount) < DupAmountTolerance
      /\ ~isNaN(newDate) /\ ~isNaN(expenseDate)
      /\ Abs(Val(newDate) - Val(expenseDate)) * 24 < DupHours

\* the potential duplicates, of which the first is reported
detectDuplicateExpense(newExpense, recentExpenses) ==
  SelectSeq(recentExpenses, LAMBDA e : IsDuplicateOf(e, newExpense))

(***************************************************************************)
(* The handlers resume: one action per await on the network.               *)
(***************************************************************************)
\* a Ledger call succeeds, or fails while faults are left
Outcomes == IF faults > 0 THEN BOOLEAN ELSE {TRUE}

Spend(ok) == faults' = IF ok THEN faults ELSE faults - 1

Say(i, kind) == [i EXCEPT !.replies = Append(@, Reply(kind))]

\* findExpense resumes from the read of fetchRecentExpenses(30)
FindRead1(s) ==
  LET i        == inv[s]
      recent   == fetchRecentExpenses(sheet, 30)
      filtered == filterExpenses(recent, i.category, i.amount, i.date)
  IN  /\ i.pc = "find1"
      /\ \E ok \in Outcomes :
           /\ Spend(ok)
           /\ Commit([inv EXCEPT ![s] =
                 IF ~ok
                   THEN Finished(Say([i EXCEPT !.failed = TRUE], "error"))
                 ELSE IF filtered = << >>
                   THEN Finished(Say(i, "not_found"))
                 ELSE [i EXCEPT !.pc = "find2", !.expenses = filtered]])
      /\ UNCHANGED << applied, budgets, sheet, pendingOperations, budget,
                      gemini, expired >>

\* the entry handleExpenseDeletion / handleExpenseEdit set for a result
LookupOp(cmd, expenses, rows) ==
  IF Len(rows) = 1
    THEN IF cmd = C_delete
           THEN DeleteConfirmOp(ArrayAt(rows, 0), expenses[1], 0)
           ELSE EditFieldOp(ArrayAt(rows, 0), expenses[1], 0)
    ELSE SelectOp(IF cmd = C_delete THEN "delete_select" ELSE "edit_select",
                  expenses, rows)

LookupReply(cmd, expenses, rows) ==
  IF Len(rows) = 1
    THEN IF cmd = C_delete THEN Reply("confirm_delete") ELSE Reply("ask_field")
    ELSE ListReply(Len(rows), Len(expenses))

\* findExpense resumes from the read of findMatchingRowNumbers, and the
\* command handler sets the pending entry and prompts
FindRead2(s) ==
  LET i    == inv[s]
      rows == findMatchingRowNumbers(sheet, i.expenses)
      op   == LookupOp(i.cmd, i.expenses, rows)
  IN  /\ i.pc = "find2"
      /\ \E ok \in Outcomes :
           /\ Spend(ok)
           /\ pendingOperations' =
                 IF ok THEN [pendingOperations EXCEPT ![i.user] = op]
                       ELSE pendingOperations
           /\ expired' = IF ok THEN [expired EXCEPT ![i.user] = FALSE]
                               ELSE expired
           /\ Commit([inv EXCEPT ![s] =
                 IF ok
                   THEN Finished([i EXCEPT !.replies =
                          Append(@, LookupReply(i.cmd, i.expenses, rows))])
                   ELSE Finished(Say([i EXCEPT !.failed = TRUE], "error"))])
      /\ UNCHANGED << applied, budgets, sheet, budget, gemini >>

\* a variant of the resumption of deleteExpense without the catch of
\* handlePendingOperation: a failed call ends the handler at once
DeleteCallUncaught(s) ==
  LET i   == inv[s]
      row == i.op.rowNumber
  IN  /\ i.pc = "del_call"
      /\ \E ok \in (IF row = 0 THEN {FALSE} ELSE Outcomes) :
           /\ faults' = IF ok \/ row = 0 THEN faults ELSE faults - 1
           /\ sheet' = IF ok THEN SheetDelete(sheet, row) ELSE sheet
           /\ Commit([inv EXCEPT ![s] =
                 [i EXCEPT !.pc = IF ok THEN "clear" ELSE "done",
                    !.calls = Append(@, Call("delete", row,
                                             IdAt(sheet, row), ok)),
                    !.replies = Append(@, Reply(IF ok THEN "deleted"
                                                      ELSE "error"))]])
      /\ UNCHANGED << applied, budgets, pendingOperations, budget, gemini,
                      expired >>

\* deleteExpense(operation.rowNumber) resumes; an undefined row number is
\* refused by the API
DeleteCall(s) ==
  LET i   == inv[s]
      row == i.op.rowNumber
  IN  /\ i.pc = "del_call"
      /\ \E ok \in (IF row = 0 THEN {FALSE} ELSE Outcomes) :
           /\ faults' = IF ok \/ row = 0 THEN faults ELSE faults - 1
           /\ sheet' = IF ok THEN SheetDelete(sheet, row) ELSE sheet
           /\ Commit([inv EXCEPT ![s] =
                 [i EXCEPT !.pc = "clear",
                    !.calls = Append(@, Call("delete", row,
                                             IdAt(sheet, row), ok)),
                    !.replies = Append(@, Reply(IF ok THEN "deleted"
                                                      ELSE "error"))]])
      /\ UNCHANGED << applied, budgets, pendingOperations, budget, gemini,
                      expired >>

\* editExpense(rowNumber, expenseData) resumes
EditCall(s) ==
  LET i   == inv[s]
      row == i.op.rowNumber
  IN  /\ i.pc = "edit_call"
      /\ \E ok \in (IF row = 0 THEN {FALSE} ELSE Outcomes) :
           /\ faults' = IF ok \/ row = 0 THEN faults ELSE faults - 1
           /\ sheet' = IF ok
                         THEN SheetUpdate(sheet, row,
                                          CellsOf(sheet, row, i.expenseData))
                         ELSE sheet
           /\ Commit([inv EXCEPT ![s] =
                 [i EXCEPT !.pc = "clear",
                    !.calls = Append(@, Call("update", row,
                                             IdAt(sheet, row), ok)),
                    !.replies = Append(@, Reply(IF ok THEN "updated"
                                                      ELSE "error"))]])
      /\ UNCHANGED << applied, budgets, pendingOperations, budget, gemini,
                      expired >>

\* a variant of the end of a pending operation that empties the whole map
\* (pendingOperations.clear())
ClearAll(s) ==
  LET i == inv[s]
  IN  /\ i.pc = "clear"
      /\ pendingOperations' = [u \in Users |-> NoOp]
      /\ expired' = [u \in Users |-> FALSE]
      /\ Commit([inv EXCEPT ![s] = Finished(i)])
      /\ UNCHANGED << applied, budgets, sheet, budget, faults, gemini >>

\* the reply that ends a pending operation resumes:
\* pendingOperations.delete(message.author.id)
Clear(s) ==
  LET i == inv[s]
  IN  /\ i.pc = "clear"
      /\ pendingOperations' = [pendingOperations EXCEPT ![i.user] = NoOp]
      /\ expired' = [expired EXCEPT ![i.user] = FALSE]
      /\ Commit([inv EXCEPT ![s] = Finished(i)])
      /\ UNCHANGED << applied, budgets, sheet, budget, faults, gemini >>

\* handleExpenseMessage resumes from the read of fetchRecentExpenses(2); a
\* failed read is logged and the handler goes on
ExpenseRead(s) ==
  LET i      == inv[s]
      recent == fetchRecentExpenses(sheet, 2)
      dups   == detectDuplicateExpense(i.expenseData, recent)
  IN  /\ i.pc = "dup_read"
      /\ \E ok \in Outcomes :
           /\ Spend(ok)
           /\ Commit([inv EXCEPT ![s] =
                 IF ~ok
                   THEN AfterDupCheck([i EXCEPT !.failed = TRUE])
                 ELSE IF dups # << >>
                   THEN [Say(i, "duplicate_warning") EXCEPT
                           !.pc = "dup_wait", !.recentExpenses = recent,
                           !.potentialDuplicate = dups[1]]
                 ELSE AfterDupCheck([i EXCEPT !.recentExpenses = recent])])
      /\ UNCHANGED << applied, budgets, sheet, pendingOperations, budget,
                      gemini, expired >>

\* a variant of the collector without a time limit: it never rejects
DupWaitUnbounded(s) ==
  /\ inv[s].pc = "never"
  /\ UNCHANGED vars

\* awaitMessages rejects after 30 seconds without a matching message
DupTimeout(s) ==
  LET i == inv[s]
  IN  /\ i.pc = "dup_wait"
      /\ Commit([inv EXCEPT ![s] =
            Finished(Say(i, "no_confirmation"))])
      /\ UNCHANGED << applied, budgets, sheet, pendingOperations, budget,
                      faults, gemini, expired >>

\* what the Insight Service can answer: a category or an empty text
Suggestions == {T_Food, T_Other, NoText}

\* categorizeExpense returns: the trimmed answer, or "Other" when the call
\* failed
CategorizeOutcomes ==
  { [insight |-> "answered", category |-> c] : c \in Suggestions }
    \cup { [insight |-> "failed", category |-> T_Other] }

Categorize(s) ==
  LET i == inv[s]
  IN  /\ i.pc = "categorize"
      /\ \E r \in CategorizeOutcomes :
           Commit([inv EXCEPT ![s] =
             AfterCategorize([i EXCEPT !.insight = r.insight],
               IF r.category # NoText
                 THEN [i.expenseData EXCEPT !.category = r.category]
                 ELSE i.expenseData)])
      /\ UNCHANGED << applied, budgets, sheet, pendingOperations, budget,
                      faults, gemini, expired >>

\* enhanceExpenseDescription returns the description (also when the call
\* fails) or another text
Enhance(s) ==
  LET i == inv[s]
  IN  /\ i.pc = "enhance"
      /\ \E enhanced \in {i.expenseData.description, T_enhanced} :
           Commit([inv EXCEPT ![s] =
             [i EXCEPT !.pc = "append",
                       !.expenseData.description = enhanced]])
      /\ UNCHANGED << applied, budgets, sheet, pendingOperations, budget,
                      faults, gemini, expired >>

\* the id of a record no row holds yet
FreshId ==
  LET used == { sheet[j].id : j \in DOMAIN sheet }
                \cup { inv[r].expenseData.id : r \in Slots }
                \cup { pendingOperations[u].shown : u \in Users }
                \cup UNION { { e.id : e \in Range(pendingOperations[u].expenses) }
                             : u \in Users }
                \cup UNION { { e.id : e \in Range(inv[r].expenses) }
                             : r \in Slots }
                \cup UNION { { c.id : c \in Range(inv[r].calls) }
                             : r \in Slots }
  IN  CHOOSE n \in 1 .. (Cardinality(used) + 1) : n \notin used

\* addExpenseToSheet resumes, then the confirmation reply
AppendCall(s) ==
  LET i   == inv[s]
      d   == i.expenseData
      row == MkRow(FreshId, d.date, d.category, d.amount, d.description, T_now)
  IN  /\ i.pc = "append"
      /\ \E ok \in Outcomes :
           /\ Spend(ok)
           /\ sheet' = IF ok THEN Append(sheet, row) ELSE sheet
           /\ Commit([inv EXCEPT ![s] =
                 Finished(
                   [i EXCEPT !.calls = Append(@, Call("append",
                                 Len(sheet) + 2, IF ok THEN row.id ELSE 0, ok)),
                             !.replies = Append(@, Reply(IF ok THEN "recorded"
                                                               ELSE "error"))])])
      /\ UNCHANGED << applied, budgets, pendingOperations, budget, gemini,
                      expired >>

\* saveBudget resumes from readFile with the content of budgets.json
BudgetRead(s) ==
  LET i == inv[s]
  IN  /\ i.pc = "budget_read"
      /\ Commit([inv EXCEPT ![s] =
            [i EXCEPT !.pc = "budget_write", !.budgetsRead = budgets]])
      /\ UNCHANGED << applied, budgets, sheet, pendingOperations, budget,
                      faults, gemini, expired >>

\* getExpensesByCategory(category, 30) on the rows read
getExpensesByCategory(rows, category) ==
  SelectSeq(fetchRecentExpenses(rows, 30),
            LAMBDA e : toLowerCase(e.category) = toLowerCase(category))

\* budgets[category.toLowerCase()] = {amount, updatedAt} on the content
\* read; JSON.stringify leaves out an amount that is undefined
WithBudget(read, category, amount) ==
  { e \in read : e.key # toLowerCase(category) }
    \cup { [key |-> toLowerCase(category), amount |-> amount] }

\* saveBudget resumes from writeFile, then analyzeBudget reads the expenses
\* of the category and replies: without expenses that the budget was set,
\* else the analysis, for which toFixed throws when the amount is undefined
BudgetWrite(s) ==
  LET i     == inv[s]
      spent == getExpensesByCategory(sheet, i.category)
      kind  == IF spent = << >> THEN "budget_set"
               ELSE IF i.budgetAmount = Undefined THEN "budget_error"
               ELSE "budget_analysis"
  IN  /\ i.pc = "budget_write"
      /\ budgets' = WithBudget(i.budgetsRead, i.category, i.budgetAmount)
      /\ Commit([inv EXCEPT ![s] = Finished(Say(i, kind))])
      /\ UNCHANGED << applied, sheet, pendingOperations, budget, faults,
                      gemini, expired >>

\* Array.prototype.slice(start) with one argument
slice(a, start) ==
  LET len == Len(a)
      k   == IF start < 0 THEN (IF len + start < 0 THEN 0 ELSE len + start)
             ELSE IF start > len THEN len ELSE start
  IN  SubSeq(a, k + 1, len)

\* listRecentExpenses resumes from the read of fetchRecentExpenses(30), and
\* showRecentExpenses replies with the list
RecentRead(s) ==
  LET i      == inv[s]
      listed == slice(fetchRecentExpenses(sheet, 30), 0 - i.limit)
  IN  /\ i.pc = "recent_read"
      /\ \E ok \in Outcomes :
           /\ Spend(ok)
           /\ Commit([inv EXCEPT ![s] =
                 IF ~ok
                   THEN Finished(Say([i EXCEPT !.failed = TRUE], "error"))
                 ELSE IF listed = << >>
                   THEN Finished(Say(i, "no_recent"))
                 ELSE Finished(
                        [i EXCEPT !.expenses = listed,
                                  !.replies = Append(@,
                                     [kind |-> "recent_list",
                                      count |-> Len(listed),
                                      listed |-> Len(listed)])])])
      /\ UNCHANGED << applied, budgets, sheet, pendingOperations, budget,
                      gemini, expired >>

\* time passes beyond the deadline of u's pending entry.  The code keeps no
\* timer and no timestamp for an entry: nothing but the clock changes.
DeadlinePasses(u) ==
  /\ pendingOperations[u].type # "none"
  /\ ~expired[u]
  /\ expired' = [expired EXCEPT ![u] = TRUE]
  /\ UNCHANGED << applied, budgets, sheet, pendingOperations, inv, done,
                  budget, faults, gemini >>

(***************************************************************************)
(* Specifications.  Each one fixes the Ledger the bot starts on, the users *)
(* and the texts they send; all of them run the same handlers.             *)
(***************************************************************************)
\* messages sent in one run
MaxMsgs == 3

\* messages sent in one run of two users
RaceMsgs == 4

\* Ledger calls that fail in one run
MaxFaults == 1

InitWith(sheets, g, msgs) ==
  /\ sheet \in sheets
  /\ pendingOperations = [u \in Users |-> NoOp]
  /\ inv = [s \in Slots |-> IdleInv]
  /\ done = {}
  /\ budget = msgs
  /\ faults = MaxFaults
  /\ gemini = g
  /\ expired = [u \in Users |-> FALSE]
  /\ budgets = NoBudgets
  /\ input = NoText
  /\ output = NoText

\* no handler runs; a function is about to be applied to one of `inputs`
InitApplied(inputs) ==
  /\ sheet = << >>
  /\ pendingOperations = [u \in Users |-> NoOp]
  /\ inv = [s \in Slots |-> IdleInv]
  /\ done = {}
  /\ budget = 0
  /\ faults = 0
  /\ gemini = FALSE
  /\ expired = [u \in Users |-> FALSE]
  /\ budgets = NoBudgets
  /\ input \in inputs
  /\ output = NoText

Food(i, d, a) == MkRow(i, d, T_Food, a, T_Food, T_now)

Taxi(i, d, a) == MkRow(i, d, T_Taxi, a, T_Taxi, T_now)

\* Ledgers of the delete workflow: no match, one match, two matches of
\* different dates, three matches of which the first and last agree in
\* date, category and amount, and two amounts 0.007 apart of which one is
\* within 0.01 of the amount asked for
DeleteSheets ==
  { << Taxi(1, D_1May, 5000) >>,
    << Taxi(1, D_1May, 5000), Food(2, D_2May, 10000) >>,
    << Food(1, D_1May, 10000), Food(2, D_2May, 10000) >>,
    << Food(1, D_1May, 10000), Food(2, D_2May, 10000),
       Food(3, D_1May, 10000) >>,
    << Food(1, D_1May, 10012), Food(2, D_1May, 10005) >> }

DeleteTexts == {T_delete, T_1, T_2, T_3, T_2x, T_yes, T_Yes, T_no, T_ok}

InitDelete == InitWith(DeleteSheets, FALSE, MaxMsgs)

NextDelete ==
  \/ \E t \in DeleteTexts : Receive("alice", t)
  \/ \E s \in Slots : FindRead1(s)
  \/ \E s \in Slots : FindRead2(s)
  \/ \E s \in Slots : DeleteCall(s)
  \/ \E s \in Slots : Clear(s)
  \/ \E s \in Slots : ExpenseRead(s)
  \/ \E s \in Slots : AppendCall(s)

SpecDelete == InitDelete /\ [][NextDelete]_vars

\* Ledgers of the confirmation step: one match, and two matches to pick from
ConfirmSheets ==
  { << Taxi(1, D_1May, 5000), Food(2, D_2May, 10000) >>,
    << Food(1, D_1May, 10000), Food(2, D_2May, 10000) >> }

ConfirmTexts == {T_delete, T_1, T_yes, T_Yes, T_no, T_ok}

InitConfirm == InitWith(ConfirmSheets, FALSE, MaxMsgs)

NextConfirm ==
  \/ \E t \in ConfirmTexts : Receive("alice", t)
  \/ \E s \in Slots : FindRead1(s)
  \/ \E s \in Slots : FindRead2(s)
  \/ \E s \in Slots : DeleteCall(s)
  \/ \E s \in Slots : Clear(s)
  \/ \E s \in Slots : ExpenseRead(s)
  \/ \E s \in Slots : AppendCall(s)

SpecConfirm == InitConfirm /\ [][NextConfirm]_vars

\* the Ledger of the edit workflow: one record matches the command
EditSheets ==
  { << Taxi(1, D_1May, 5000), Food(2, D_2May, 10000) >> }

EditTexts ==
  {T_edit, T_amount, T_Amount, T_category, T_date, T_ok, T_30, T_money,
   T_Fuel}

InitEdit == InitWith(EditSheets, FALSE, MaxMsgs)

NextEdit ==
  \/ \E t \in EditTexts : Receive("alice", t)
  \/ \E s \in Slots : FindRead1(s)
  \/ \E s \in Slots : FindRead2(s)
  \/ \E s \in Slots : EditCall(s)
  \/ \E s \in Slots : Clear(s)
  \/ \E s \in Slots : ExpenseRead(s)
  \/ \E s \in Slots : AppendCall(s)

SpecEdit == InitEdit /\ [][NextEdit]_vars

\* two users on one Ledger: alice deletes the Food record while bob deletes
\* the Taxi record of 5
RaceSheets ==
  { << Taxi(1, D_1May, 5000), Food(2, D_1May, 10000),
       Taxi(3, D_1May, 7000) >> }

AliceTexts == {T_delete, T_yes}

BobTexts == {T_deleteTaxi, T_yes}

InitRace == InitWith(RaceSheets, FALSE, RaceMsgs)

NextRace ==
  \/ \E t \in AliceTexts : Receive("alice", t)
  \/ \E t \in BobTexts : Receive("bob", t)
  \/ \E s \in Slots : FindRead1(s)
  \/ \E s \in Slots : FindRead2(s)
  \/ \E s \in Slots : DeleteCall(s)
  \/ \E s \in Slots : Clear(s)

SpecRace == InitRace /\ [][NextRace]_vars

\* one user who sends commands and answers at any time, also after the
\* deadline of the pending entry
StaleSheets ==
  { << Taxi(1, D_1May, 5000), Food(2, D_2May, 10000) >> }

StaleTexts == {T_delete, T_edit, T_category, T_yes, T_no}

InitStale == InitWith(StaleSheets, FALSE, MaxMsgs)

NextStale ==
  \/ \E t \in StaleTexts : Receive("alice", t)
  \/ DeadlinePasses("alice")
  \/ \E s \in Slots : FindRead1(s)
  \/ \E s \in Slots : FindRead2(s)
  \/ \E s \in Slots : DeleteCall(s)
  \/ \E s \in Slots : EditCall(s)
  \/ \E s \in Slots : Clear(s)

SpecStale == InitStale /\ [][NextStale]_vars

\* Ledgers of the duplicate check, on the day TodayText: a record of today
\* equal to the new one; a record of yesterday equal to the new one; two
\* records of today, of another category and of an amount 2.0 away; two
\* records of today 0.5 away and equal, in this order
DupSheets ==
  { << Food(1, TodayText, 10000) >>,
    << Food(1, D_4May, 10000) >>,
    << Taxi(1, TodayText, 10000), Food(2, TodayText, 12000) >>,
    << Food(1, TodayText, 10500), Food(2, TodayText, 10000) >> }

DupAliceTexts == {T_food10, T_yes, T_No, T_hello}

DupBobTexts == {T_food10, T_yes}

InitDup == InitWith(DupSheets, FALSE, MaxMsgs)

NextDup ==
  \/ \E t \in DupAliceTexts : Receive("alice", t)
  \/ \E t \in DupBobTexts : Receive("bob", t)
  \/ \E s \in Slots : ExpenseRead(s)
  \/ \E s \in Slots : DupTimeout(s)
  \/ \E s \in Slots : AppendCall(s)

SpecDup == InitDup /\ [][NextDup]_vars

\* the handler in slot s resumes from the await it is suspended in: the
\* Ledger answers, or the timer of awaitMessages fires
Resumes(s) == ExpenseRead(s) \/ DupTimeout(s) \/ AppendCall(s)

\* one user who deletes, edits and records ("1" outside an operation is an
\* expense of that amount): a ledger where the deleted
\* record has one match and the edited one too, and a ledger where the
\* deleted record has none and the edited one two to select from; no ledger
\* record is of the last two days
WriteSheets ==
  { << Taxi(1, D_1May, 5000), Food(2, D_2May, 10000) >>,
    << Food(1, D_1May, 10000), Food(2, D_2May, 10000) >> }

WriteTexts == {T_deleteTaxi, T_edit, T_category, T_yes, T_no, T_1}

InitWrite == InitWith(WriteSheets, FALSE, MaxMsgs)

NextWrite ==
  \/ \E t \in WriteTexts : Receive("alice", t)
  \/ \E s \in Slots : FindRead1(s)
  \/ \E s \in Slots : FindRead2(s)
  \/ \E s \in Slots : DeleteCall(s)
  \/ \E s \in Slots : EditCall(s)
  \/ \E s \in Slots : Clear(s)
  \/ \E s \in Slots : ExpenseRead(s)
  \/ \E s \in Slots : AppendCall(s)

SpecWrite == InitWrite /\ [][NextWrite]_vars

\* formatDateToIST of one instant on two hosts with different local
\* timezones: UTC, UTC+5:30, UTC-7 and UTC+9; the
\* instants are the half hours of 31/12/2024 and of 05/05/2025
HostZones == {0, 330, 0 - 420, 540}

HalfHour == 30

ZoneDays == {DaysFromCivil(2024, 12, 31), Today}

ZoneInstants ==
  { d * MinutesPerDay + k * HalfHour :
      d \in ZoneDays, k \in 0 .. (MinutesPerDay \div HalfHour - 1) }

ZoneInputs ==
  { [instant |-> t, hosts |-> h] :
      t \in ZoneInstants,
      h \in { p \in HostZones \X HostZones : p[1] # p[2] } }

InitZone == InitApplied(ZoneInputs)

Normalize ==
  /\ output = NoText
  /\ output' = [h \in DOMAIN input.hosts |->
                  formatDateToISTOn(input.hosts[h], input.instant)]
  /\ UNCHANGED << handled, input >>

NextZone == Normalize

SpecZone == InitZone /\ [][NextZone]_vars

\* parseExpense applied to texts of three forms.  An input carries, next
\* to its text, the parts it was put together from: the letters run, the
\* amount its amount token states (in thousandths) and the text without
\* mentions and outer white space.
T_EatOut == <<"E","a","t"," ","o","u","t">>

T_mention == <<"<","@","1","2","3",">">>

AmountTexts ==
  { [text |-> <<"1","0">>, amount |-> 10000],
    [text |-> <<"2","5",".","5","0">>, amount |-> 25500],
    [text |-> <<"3",".","7">>, amount |-> 3700],
    [text |-> <<"0">>, amount |-> 0],
    [text |-> <<"4","5">>, amount |-> 45000] }

LetterRuns == {T_Food, T_EatOut, <<"a">>, T_Food \o <<" ">>}

\* "<letters/spaces> $<amount>"
CategoryInputs ==
  { [form |-> "category", text |-> r \o sep \o <<"$">> \o a.text,
     run |-> r, amount |-> a.amount,
     cleaned |-> r \o sep \o <<"$">> \o a.text] :
      r \in LetterRuns, sep \in {<<" ">>, <<" ", " ">>}, a \in AmountTexts }

\* "$<amount>", also after a mention and within white space
AmountInputs ==
  { [form |-> "amount", text |-> w[1] \o <<"$">> \o a.text \o w[2],
     run |-> NoText, amount |-> a.amount, cleaned |-> <<"$">> \o a.text] :
      w \in { << NoText, NoText >>, << T_mention \o <<" ">>, NoText >>,
              << <<" ">>, <<" ">> >> },
      a \in AmountTexts }

\* an amount token and what follows it
Followers ==
  { <<"x">>, <<" ">> \o T_Food, <<" ">> \o T_food10, <<" ">> \o D_4May,
    <<" ">> \o T_EatOut \o <<" ">> \o T_45 }

AmountFirstInputs ==
  { [form |-> "amount_first", text |-> d \o a.text \o f,
     run |-> NoText, amount |-> a.amount, cleaned |-> d \o a.text \o f] :
      d \in {NoText, <<"$">>}, a \in AmountTexts, f \in Followers }

InitParse == InitApplied(CategoryInputs \cup AmountInputs \cup AmountFirstInputs)

Parse ==
  /\ output = NoText
  /\ output' = << parseExpense(input.text) >>
  /\ UNCHANGED << handled, input >>

NextParse == Parse

SpecParse == InitParse /\ [][NextParse]_vars

\* expense messages while the Insight Service is available: an amount
\* alone, two messages with a date token, and a text that is no expense
InsightSheets == { << Taxi(1, TodayText, 5000) >> }

InsightTexts == {T_45, T_rent3May, T_rent13May, T_hello}

InitInsight == InitWith(InsightSheets, TRUE, MaxMsgs)

NextInsight ==
  \/ \E t \in InsightTexts : Receive("alice", t)
  \/ \E s \in Slots : ExpenseRead(s)
  \/ \E s \in Slots : DupTimeout(s)
  \/ \E s \in Slots : Categorize(s)
  \/ \E s \in Slots : Enhance(s)
  \/ \E s \in Slots : AppendCall(s)

SpecInsight == InitInsight /\ [][NextInsight]_vars

\* expense messages with the Insight Service available or not: an amount
\* alone, which needs a category, sent more than once
DegradeSheets == { << >> }

DegradeTexts == {T_45}

\* messages sent in one run of it
DegradeMsgs == 2

InitDegrade == \E g \in BOOLEAN : InitWith(DegradeSheets, g, DegradeMsgs)

NextDegrade ==
  \/ \E t \in DegradeTexts : Receive("alice", t)
  \/ \E s \in Slots : ExpenseRead(s)
  \/ \E s \in Slots : DupTimeout(s)
  \/ \E s \in Slots : Categorize(s)
  \/ \E s \in Slots : Enhance(s)
  \/ \E s \in Slots : AppendCall(s)

SpecDegrade == InitDegrade /\ [][NextDegrade]_vars

\* one user who edits the amount or the date of the Food record and sends
\* "-5", which is the new value during an edit and an expense of 5 otherwise
ValueSheets == { << Taxi(1, D_1May, 5000), Food(2, D_2May, 10000) >> }

ValueTexts == {T_edit, T_amount, T_date, T_minus5}

InitValue == InitWith(ValueSheets, FALSE, MaxMsgs)

NextValue ==
  \/ \E t \in ValueTexts : Receive("alice", t)
  \/ \E s \in Slots : FindRead1(s)
  \/ \E s \in Slots : FindRead2(s)
  \/ \E s \in Slots : EditCall(s)
  \/ \E s \in Slots : Clear(s)
  \/ \E s \in Slots : ExpenseRead(s)
  \/ \E s \in Slots : AppendCall(s)

SpecValue == InitValue /\ [][NextValue]_vars

\* one user who deletes the Food record of 02/05/2025; the Ledger holds, in
\* the row below it, a Food record of 01/01/2025, more than 30 days old
WindowSheet == << Food(1, D_2May, 10000), Food(2, D_1Jan, 10000) >>

WindowTexts == {T_delete, T_yes}

InitWindow == InitWith({WindowSheet}, FALSE, MaxMsgs)

NextWindow ==
  \/ \E t \in WindowTexts : Receive("alice", t)
  \/ \E s \in Slots : FindRead1(s)
  \/ \E s \in Slots : FindRead2(s)
  \/ \E s \in Slots : DeleteCall(s)
  \/ \E s \in Slots : Clear(s)

SpecWindow == InitWindow /\ [][NextWindow]_vars

\* one user who sets the budgets of Food and Taxi and checks the budget of
\* Food
BudgetSheets == { << Taxi(1, D_1May, 5000), Food(2, D_2May, 10000) >> }

BudgetTexts == {T_budgetSet, T_budgetCheck, T_budgetTaxi}

InitBudget == InitWith(BudgetSheets, FALSE, MaxMsgs)

NextBudget ==
  \/ \E t \in BudgetTexts : Receive("alice", t)
  \/ \E s \in Slots : BudgetRead(s)
  \/ \E s \in Slots : BudgetWrite(s)

SpecBudget == InitBudget /\ [][NextBudget]_vars

\* one user who lists the recent expenses of a Ledger with three records in
\* the 30-day window, below one that is older
RecentSheets ==
  { << Taxi(1, D_1Jan, 5000), Food(2, D_1May, 10000), Taxi(3, D_2May, 7000),
       Food(4, TodayText, 12000) >> }

RecentTexts == {T_recent, T_recent2, T_recent0, T_recentMinus1}

InitRecent == InitWith(RecentSheets, FALSE, MaxMsgs)

NextRecent ==
  \/ \E t \in RecentTexts : Receive("alice", t)
  \/ \E s \in Slots : RecentRead(s)

SpecRecent == InitRecent /\ [][NextRecent]_vars

\* one user whose messages start a handler of each kind: a command that
\* looks a record up, the answer that confirms its deletion, and an expense
\* that is a probable duplicate of the stored record, which the answer also
\* confirms.  The Insight Service is not available.  Every collaborator call
\* in flight eventually returns or fails and the timer of a collector
\* eventually fires.
TerminateSheets == { << Food(1, TodayText, 10000) >> }

TerminateTexts == {T_delete, T_yes, T_food10}

\* messages sent in one run of it
TerminateMsgs == 2

InitTerminate == InitWith(TerminateSheets, FALSE, TerminateMsgs)

\* the handler in slot s resumes from the await it is suspended in
Returns(s) ==
  \/ FindRead1(s)
  \/ FindRead2(s)
  \/ DeleteCall(s)
  \/ Clear(s)
  \/ ExpenseRead(s)
  \/ DupTimeout(s)
  \/ AppendCall(s)

NextTerminate ==
  \/ \E t \in TerminateTexts : Receive("alice", t)
  \/ \E s \in Slots : FindRead1(s)
  \/ \E s \in Slots : FindRead2(s)
  \/ \E s \in Slots : DeleteCall(s)
  \/ \E s \in Slots : Clear(s)
  \/ \E s \in Slots : ExpenseRead(s)
  \/ \E s \in Slots : DupTimeout(s)
  \/ \E s \in Slots : AppendCall(s)

SpecTerminate ==
  /\ InitTerminate
  /\ [][NextTerminate]_vars
  /\ \A s \in Slots : WF_vars(Returns(s))

(***************************************************************************)
(* Properties.  They speak of the invocations that returned in the last    *)
(* step (done) and of the state that step left.                            *)
(***************************************************************************)
\* the text is "yes" (resp. "no") in any letter case
IsYes(content) ==
  /\ Len(content) = 3
  /\ content[1] \in {"y", "Y"}
  /\ content[2] \in {"e", "E"}
  /\ content[3] \in {"s", "S"}

IsNo(content) ==
  /\ Len(content) = 2
  /\ content[1] \in {"n", "N"}
  /\ content[2] \in {"o", "O"}

\* the decimal text of k, for 0 <= k <= 9
IntText(k) == << DigitChars[k + 1] >>

\* the records of the 30-day window that match the lookup of invocation d,
\* in store order
MatchesOf(d) ==
  filterExpenses(fetchRecentExpenses(sheet, 30), d.category, d.amount, d.date)

LastReply(d) == d.replies[Len(d.replies)]

\* the Ledger calls of d: exactly one, of the given kind, on the given row
OneCall(d, kind, row) ==
  /\ Len(d.calls) = 1
  /\ d.calls[1].kind = kind
  /\ d.calls[1].row = row

\* C1: in the delete workflow with several candidates, after the user picked
\* index k and confirmed with yes, exactly one row is deleted and it is the
\* row holding the k-th listed candidate.
C1_DeletesPickedCandidate ==
  \A d \in done :
    (/\ d.op.type = "delete_confirm"
     /\ d.op.picked > 0
     /\ IsYes(d.content)
     /\ d.calls # << >>
     /\ d.calls[1].ok)
    => /\ OneCall(d, "delete", d.op.rowNumber)
       /\ d.calls[1].id = d.op.shown

\* C3: one pending operation causes at most one deleteAt (or updateAt) call:
\* while one invocation of a user has made the Ledger call for a pending
\* entry, no other invocation of that user makes or has made a call for
\* the same entry.
C3_AtMostOneCallPerEntry ==
  \A s \in Slots : \A r \in Slots \ {s} :
    (/\ inv[s].user = inv[r].user
     /\ inv[s].op.type \in {"delete_confirm", "edit_value"}
     /\ inv[s].op = inv[r].op
     /\ inv[s].calls # << >>)
    => /\ inv[r].calls = << >>
       /\ inv[r].pc \notin {"del_call", "edit_call"}

\* C6: a delete (resp. edit) command of a user in state (none), whose lookup
\* succeeded: 0 matching records reply "not found" and create no entry; 1
\* matching record makes the state DeleteConfirm (resp. EditFieldSelect)
\* targeting that record; more than 1 make it DeleteSelect (resp.
\* EditSelect) holding all matches in store order.
C6_LookupTransitions ==
  \A d \in done :
    LET m   == MatchesOf(d)
        now == pendingOperations[d.user]
        del == d.cmd = C_delete
    IN  (/\ d.cmd \in {C_delete, C_edit}
         /\ d.op.type = "none"
         /\ d.expenses = m
         /\ LastReply(d).kind \notin {"error", "usage", "invalid_amount"})
        => /\ Len(m) = 0 =>
                /\ LastReply(d).kind = "not_found"
                /\ now = NoOp
           /\ Len(m) = 1 =>
                /\ now.type = IF del THEN "delete_confirm" ELSE "edit_field"
                /\ LastReply(d).kind = IF del THEN "confirm_delete"
                                              ELSE "ask_field"
                /\ now.shown = m[1].id
                /\ IdAt(sheet, now.rowNumber) = m[1].id
           /\ Len(m) > 1 =>
                /\ now.type = IF del THEN "delete_select" ELSE "edit_select"
                /\ now.expenses = m

\* C7: in DeleteSelect or EditSelect with N candidates, a reply that is not
\* an integer in 1..N re-prompts, leaves the entry unchanged and writes
\* nothing; a reply k in 1..N moves the user to DeleteConfirm (resp.
\* EditFieldSelect) whose target is the location of the k-th candidate.
C7_SelectionValidated ==
  \A d \in done :
    LET N   == Len(d.op.expenses)
        now == pendingOperations[d.user]
    IN  d.op.type \in {"delete_select", "edit_select"}
        => /\ (\A k \in 1 .. N : d.content # IntText(k)) =>
                /\ LastReply(d).kind = "invalid_selection"
                /\ now = d.op
                /\ d.calls = << >>
           /\ \A k \in 1 .. N :
                d.content = IntText(k) =>
                  /\ now.type = IF d.op.type = "delete_select"
                                  THEN "delete_confirm" ELSE "edit_field"
                  /\ IdAt(sheet, now.rowNumber) = d.op.expenses[k].id

\* C8: in DeleteConfirm, "yes" in any letter case calls deleteAt on the
\* target exactly once and clears the entry; "no" makes no Ledger call and
\* clears the entry; any other reply re-prompts for yes/no, makes no Ledger
\* call and leaves the entry unchanged.
C8_DeleteConfirm ==
  \A d \in done :
    d.op.type = "delete_confirm"
    => IF IsYes(d.content)
         THEN /\ OneCall(d, "delete", d.op.rowNumber)
              /\ pendingOperations[d.user] = NoOp
       ELSE IF IsNo(d.content)
         THEN /\ d.calls = << >>
              /\ LastReply(d).kind = "canceled"
              /\ pendingOperations[d.user] = NoOp
       ELSE /\ d.calls = << >>
            /\ d.replies = << Reply("reprompt_yes_no") >>
            /\ pendingOperations[d.user] = d.op

\* C8 happens: a confirmation "Yes" deleted the record shown and the entry
\* is gone
C8_Witness ==
  \E d \in done :
    /\ d.op.type = "delete_confirm"
    /\ d.content = T_Yes
    /\ OneCall(d, "delete", d.op.rowNumber)
    /\ d.calls[1].ok
    /\ d.calls[1].id = d.op.shown
    /\ d.op.shown \notin { sheet[j].id : j \in DOMAIN sheet }
    /\ pendingOperations[d.user] = NoOp

\* the four field names of the edit workflow, in any letter case
FieldNamed(content) ==
  IF content \in {T_amount, T_Amount} THEN T_amount
  ELSE IF content = T_category THEN T_category
  ELSE IF content = T_date THEN T_date
  ELSE IF content = T_description THEN T_description
  ELSE NoText

\* C9: in EditFieldSelect, a reply naming one of category, amount, date,
\* description in any letter case moves the user to EditValueCapture with
\* that field, the same target and the same record snapshot; any other
\* reply re-prompts and leaves the entry unchanged; no Ledger call is made
\* in either case.
C9_EditFieldSelect ==
  \A d \in done :
    LET now == pendingOperations[d.user]
    IN  d.op.type = "edit_field"
        => /\ d.calls = << >>
           /\ IF FieldNamed(d.content) # NoText
                THEN /\ now.type = "edit_value"
                     /\ now.field = FieldNamed(d.content)
                     /\ now.rowNumber = d.op.rowNumber
                     /\ now.expenseData = d.op.expenseData
                     /\ now.shown = d.op.shown
                     /\ d.replies = << Reply("ask_value") >>
                ELSE /\ now = d.op
                     /\ d.replies = << Reply("invalid_field") >>

\* C9 happens: the reply "Amount" moved the user to EditValueCapture of the
\* field amount
C9_Witness ==
  \E d \in done :
    /\ d.op.type = "edit_field"
    /\ d.content = T_Amount
    /\ pendingOperations[d.user].type = "edit_value"
    /\ pendingOperations[d.user].field = T_amount
    /\ pendingOperations[d.user].rowNumber = d.op.rowNumber
    /\ d.op.rowNumber >= 2

\* the amount a reply states once "$" and "," are removed, for the replies
\* of the edit workflow: NaN when it states none
AmountStated(content) ==
  IF content = T_30 THEN Num(30000)
  ELSE IF content = T_2 THEN Num(2000)
  ELSE IF content = T_money THEN Num(1000000)
  ELSE NaN

\* the reply without the white space around it, for the replies of the
\* edit workflow
Trimmed(content) ==
  IF content = T_Fuel THEN <<"F", "u", "e", "l">> ELSE content

\* C10: in EditValueCapture, when the field is amount and the reply states
\* no number once "$" and "," are removed, the user is re-prompted, nothing
\* is written and the entry is unchanged; in every other case updateAt is
\* called once on the target with the chosen field set to the reply (amount
\* 30 for the reply 30) and the entry is cleared.
C10_EditValueCapture ==
  \A d \in done :
    LET field == d.op.field
        old   == d.op.expenseData
        new   == d.expenseData
        now   == pendingOperations[d.user]
    IN  d.op.type = "edit_value"
        => IF field = T_amount /\ isNaN(AmountStated(d.content))
             THEN /\ d.calls = << >>
                  /\ d.replies = << Reply("invalid_amount") >>
                  /\ now = d.op
             ELSE /\ OneCall(d, "update", d.op.rowNumber)
                  /\ now = NoOp
                  /\ new = IF field = T_amount
                             THEN [old EXCEPT !.amount =
                                                Val(AmountStated(d.content))]
                           ELSE IF field = T_category
                             THEN [old EXCEPT !.category = Trimmed(d.content)]
                           ELSE IF field = T_date
                             THEN [old EXCEPT !.date = Trimmed(d.content)]
                           ELSE [old EXCEPT !.description =
                                              Trimmed(d.content)]

\* C10 happens: the reply "$1,000" to the prompt for the amount wrote the
\* amount 1000 over the record shown, and the entry is gone
C10_Witness ==
  \E d \in done :
    /\ d.op.type = "edit_value"
    /\ d.op.field = T_amount
    /\ d.content = T_money
    /\ OneCall(d, "update", d.op.rowNumber)
    /\ d.calls[1].ok
    /\ d.calls[1].id = d.op.shown
    /\ \E j \in DOMAIN sheet :
         sheet[j].id = d.op.shown /\ sheet[j].amount = 1000000
    /\ pendingOperations[d.user] = NoOp

\* C2: the location handle of a pending DeleteConfirm, EditFieldSelect or
\* EditValueCapture keeps designating the record shown in the prompt: when
\* another user's delete of a different record has completed, the confirmed
\* deleteAt/updateAt still acts on the record shown and on no other.
C2_HandleDesignatesShownRecord ==
  \A d \in done :
    (/\ d.user = "alice"
     /\ d.op.type \in {"delete_confirm", "edit_value"}
     /\ d.calls # << >>
     /\ d.calls[1].ok
     /\ \A j \in DOMAIN sheet : sheet[j].id # 1)
    => d.calls[1].id = d.op.shown

\* the text is an edit or delete command with a category and an amount
IsLookupCommand(content) == content \in {T_delete, T_deleteTaxi, T_edit}

\* C4: when a user who has a pending operation sends a new edit or delete
\* command, the command is executed and is not consumed as an answer to the
\* pending operation.
C4_CommandReplacesPending ==
  \A d \in done :
    (d.op.type # "none" /\ IsLookupCommand(d.content))
    => /\ d.cmd \in {C_delete, C_edit}
       /\ \A i \in DOMAIN d.replies :
            d.replies[i].kind \notin
              {"reprompt_yes_no", "invalid_field", "invalid_selection",
               "invalid_amount", "updated", "deleted"}

\* C5: a message the user sends after the deadline of the pending operation
\* is handled as a fresh message in state (none): the handler that takes it
\* finds no pending entry to answer.
C5_ExpiredEntryIsAbandoned ==
  \A d \in done \cup { inv[s] : s \in Slots } :
    d.late => d.op.type = "none"

\* the invocations in flight and those that returned in the last step
Invocations == done \cup { inv[s] : s \in Slots }

\* the duplicate warning was sent by the invocation
Warned(d) == \E k \in DOMAIN d.replies : d.replies[k].kind = "duplicate_warning"

\* C11: when a new expense is suspected to be a duplicate, the record is
\* appended only after the same user answered "yes"; when the user answered
\* "no" or the wait timed out, no append is made for that expense and the
\* handler ends with a cancellation reply.
C11_AppendOnlyAfterYes ==
  \A d \in Invocations :
    Warned(d) =>
      /\ d.calls # << >> => (IsYes(d.answer) /\ d.answeredBy = d.user)
      /\ ~IsYes(d.answer) =>
           /\ d.calls = << >>
           /\ d.pc \in {"dup_wait", "done"}
           /\ d.pc = "dup_wait" => d.answer = NoText
           /\ d.pc = "done" =>
                LastReply(d).kind = IF IsNo(d.answer) THEN "recording_canceled"
                                                      ELSE "no_confirmation"

\* C11 happens: the user answered "yes" to the warning and the record was
\* appended, as the last row of the Ledger
C11_Witness ==
  \E d \in done :
    /\ Warned(d)
    /\ d.answer = T_yes
    /\ d.potentialDuplicate.category = d.expenseData.category
    /\ OneCall(d, "append", Len(sheet) + 1)
    /\ d.calls[1].ok
    /\ sheet[Len(sheet)].id = d.calls[1].id
    /\ LastReply(d).kind = "recorded"

\* the invocation is a handleExpenseMessage whose duplicate check read the
\* Ledger
Checked(d) ==
  /\ d.op.type = "none"
  /\ d.cmd = NoText
  /\ d.expenseData # NoExpense
  /\ d.pc # "dup_read"
  /\ ~d.failed

\* the stored record e and the new record are of the same category, less
\* than 1.0 apart in amount and less than 48 hours apart by their calendar
\* dates (day, month, year)
CalendarDuplicate(e, new) ==
  /\ e.category = new.category
  /\ Abs(e.amount - new.amount) < 1000
  /\ ~isNaN(parseISTDateString(e.date))
  /\ ~isNaN(parseISTDateString(new.date))
  /\ Abs(Val(parseISTDateString(e.date))
           - Val(parseISTDateString(new.date))) * 24 < 48

\* C12: the duplicate check flags the new record exactly when some recent
\* stored record has the same category, an amount less than 1.0 away and a
\* date less than 48 hours away, and it reports the first such record in
\* store order.
C12_FlagsCalendarDuplicates ==
  \A d \in Invocations :
    Checked(d) =>
      LET dups == SelectSeq(d.recentExpenses,
                            LAMBDA e : CalendarDuplicate(e, d.expenseData))
      IN  d.potentialDuplicate = IF dups = << >> THEN NoExpense ELSE dups[1]

\* the invocation is a handleExpenseMessage whose duplicate-check read of
\* the Ledger failed
ReadFailed(d) ==
  /\ d.op.type = "none"
  /\ d.cmd = NoText
  /\ d.expenseData # NoExpense
  /\ d.failed

\* C15: when the Ledger read made for the duplicate check of a new expense
\* fails, the operation is aborted: the invocation makes no append and ends
\* with an error reply.
C15_FailedReadAborts ==
  \A d \in done :
    ReadFailed(d) =>
      /\ d.calls = << >>
      /\ d.replies = << Reply("error") >>

\* what resolved the wait of an invocation that warned: while it waits,
\* nothing; afterwards a "yes" or "no" of its own author, or the timeout
OwnAnswerOrTimeout(d) ==
  /\ d.answer # NoText =>
       /\ d.answeredBy = d.user
       /\ IsYes(d.answer) \/ IsNo(d.answer)
  /\ (Warned(d) /\ d.pc # "dup_wait" /\ d.answer = NoText) =>
       (d.pc = "done" /\ LastReply(d).kind = "no_confirmation")
  /\ d.pc = "dup_wait" => d.answer = NoText

\* C13: the duplicate-confirmation wait of a user is resolved only by a
\* message of that user whose content is "yes" or "no" in any letter case
\* (or by its timeout), and while a handler of alice is suspended in the
\* wait, every handler of bob that is in flight can take its next step.
C13_WaitIsOwnAndDoesNotBlock ==
  /\ \A d \in Invocations : OwnAnswerOrTimeout(d)
  /\ \A r \in Slots : \A s \in Slots :
       (/\ inv[r].user = "alice" /\ inv[r].pc = "dup_wait"
        /\ inv[s].user = "bob" /\ inv[s].pc # "idle")
       => ENABLED Resumes(s)

\* C13 happens: while alice's handler waits for her confirmation, bob's
\* message "yes" was handled to completion and did not resolve the wait
C13_Witness ==
  \E d \in done : \E s \in Slots :
    /\ d.user = "bob"
    /\ d.content = T_yes
    /\ d.replies = << Reply("cannot_parse") >>
    /\ inv[s].user = "alice"
    /\ inv[s].pc = "dup_wait"
    /\ inv[s].answer = NoText

\* C14: when the deleteAt or updateAt call of a pending-operation step
\* fails, the user receives an error reply, the pending entry of the user
\* is cleared and the call is not made again by that handler, so that the
\* user's next message finds no entry.
C14_FailedWriteClearsEntry ==
  \A d \in done :
    (/\ d.op.type \in {"delete_confirm", "edit_value"}
     /\ d.calls # << >>
     /\ ~d.calls[1].ok)
    => /\ Len(d.calls) = 1
       /\ d.replies = << Reply("error") >>
       /\ pendingOperations[d.user] = NoOp

\* C14 happens: the deleteAt of a confirmed delete failed, the row is still
\* in the Ledger, the user was told and the entry is gone
C14_Witness ==
  \E d \in done :
    /\ d.op.type = "delete_confirm"
    /\ d.content = T_yes
    /\ OneCall(d, "delete", d.op.rowNumber)
    /\ ~d.calls[1].ok
    /\ IdAt(sheet, d.op.rowNumber) = d.op.shown
    /\ d.replies = << Reply("error") >>
    /\ pendingOperations[d.user] = NoOp

\* the step is part of the handling of a message of b: the invocations it
\* starts, resumes or ends are b's
HandlesMessageOf(b) ==
  /\ inv' # inv \/ done' # { }
  /\ \A s \in Slots :
       inv'[s] # inv[s] => (inv[s].user \in {"", b} /\ inv'[s].user \in {"", b})
  /\ \A d \in done' : d.user = b

\* C16: handling a message of one user never creates, changes or removes
\* the pending entry of another user: a step that changes the entry of b is
\* a step of the handling of a message of b.
C16_OnlyAuthorsEntryChanges ==
  [][\A b \in Users :
       pendingOperations'[b] # pendingOperations[b] => HandlesMessageOf(b)]_vars

\* C16 happens: bob's confirmed delete ended and cleared his entry while
\* alice's entry, set before, is still the one her lookup made
C16_Witness ==
  \E d \in done :
    /\ d.user = "bob"
    /\ d.op.type = "delete_confirm"
    /\ d.calls # << >>
    /\ pendingOperations["bob"] = NoOp
    /\ pendingOperations["alice"].type = "delete_confirm"
    /\ pendingOperations["alice"].shown = 2

\* C17: each handled inbound message results in exactly one reply to its
\* author, also when the expense needs categorization help and the Insight
\* Service is available.
C17_OneReplyPerMessage ==
  \A d \in done : Len(d.replies) = 1


\* the replies after which the handler returns without completing an
\* operation: re-prompts, cancellations, parse failures, lookup misses and
\* the replies of the lookup and selection steps
OpenReplies ==
  {"reprompt_yes_no", "invalid_field", "invalid_amount", "invalid_selection",
   "canceled", "recording_canceled", "cannot_parse", "not_found", "select_list",
   "confirm_delete", "ask_field", "ask_value"}

\* the write of d is the one that completes the operation d handles
CompletesOperation(d) ==
  \/ /\ d.op.type = "delete_confirm"
     /\ IsYes(d.content)
     /\ d.calls[1].kind = "delete"
  \/ /\ d.op.type = "edit_value"
     /\ d.op.field = T_amount => ~isNaN(parseFloat(stripCurrency(d.content)))
     /\ d.calls[1].kind = "update"
  \/ /\ d.op.type = "none"
     /\ Head(d.content) # "!"
     /\ d.expenseData # NoExpense
     /\ d.calls[1].kind = "append"

\* C18: no handler invocation makes more than one Ledger write (append,
\* updateAt or deleteAt), and a write is made only on the transition that
\* completes an operation: an invocation that re-prompts, cancels, fails to
\* parse, misses the lookup or lists, selects or asks makes no write.
C18_AtMostOneWritePerTransition ==
  \A d \in Invocations :
    /\ Len(d.calls) <= 1
    /\ d.calls # << >> => CompletesOperation(d)
    /\ (\E k \in DOMAIN d.replies : d.replies[k].kind \in OpenReplies)
       => d.calls = << >>

\* C18 happens: after a lookup that wrote nothing, the "yes" of the author
\* made the one write of the operation
C18_Witness ==
  \E d \in done :
    /\ Len(d.calls) = 1
    /\ d.calls[1].ok
    /\ d.calls[1].kind = "delete"
    /\ d.op.type = "delete_confirm"
    /\ IsYes(d.content)
    /\ Len(sheet) = 1

\* the text holds no digit and is no command
NoDigit(content) ==
  /\ \A k \in DOMAIN content : content[k] \notin Digits
  /\ content # << >> /\ Head(content) # "!"

\* C19: a text that matches neither grammar, such as any text without a
\* digit ("hello there"), makes parse return null and no partial record: the
\* handler replies that it could not understand, makes no Ledger call and
\* leaves the pending state as it was.
C19_UnparseableIsRefused ==
  \A d \in done :
    (d.op.type = "none" /\ NoDigit(d.content))
    => /\ d.replies = << Reply("cannot_parse") >>
       /\ d.calls = << >>
       /\ d.expenseData = NoExpense
       /\ ~d.help
       /\ pendingOperations[d.user] = d.op

\* C19 happens: "hello there" was answered with the could-not-understand
\* reply and nothing else was done
C19_Witness ==
  \E d \in done :
    /\ d.content = T_hello
    /\ d.op.type = "none"
    /\ d.replies = << Reply("cannot_parse") >>
    /\ d.calls = << >>
    /\ \A s \in Slots : inv[s].content # T_hello

\* the date token a message ends with: its last ten characters
DateTokenOf(content) == SubSeq(content, Len(content) - 9, Len(content))

\* C20: when the input carries a date token dd/mm/yyyy, parse returns that
\* same text as the date of the record (day, month, year), with the category
\* and the amount of the message: "Rent $800 03/05/2025" yields Rent, 800,
\* 03/05/2025.
C20_DateTokenIsDayMonthYear ==
  \A d \in Invocations :
    (d.content \in {T_rent3May, T_rent13May} /\ d.pc # "idle")
    => /\ d.expenseData.category = T_Rent
       /\ d.expenseData.amount = 800000
       /\ d.expenseData.date = DateTokenOf(d.content)

\* the calendar date of the instant t at UTC+5:30
DateAtIST(t) == formatDateToIST(Num((t + IstOffset) \div MinutesPerDay))

\* C21: the Date Normalizer is offset-fixed: for every instant, the runs of
\* normalize on hosts with different local timezones return the same
\* DD/MM/YYYY text, the calendar date of the instant at UTC+5:30.
C21_NormalizeIsOffsetFixed ==
  output # NoText
  => /\ output[1] = output[2]
     /\ output[1] = DateAtIST(input.instant)

\* C22: for every input "<letters/spaces> $<amount>" (a run of letters and
\* spaces that holds a letter, white space, an amount of at most two
\* fraction digits) parse returns a record whose category is the trimmed
\* run, whose amount is that amount, whose description is the category and
\* whose needsCategorizationHelp is false.
C22_CategoryForm ==
  (input.form = "category" /\ output # NoText)
  => /\ output[1].ok
     /\ ~output[1].help
     /\ output[1].data.category = trim(input.run)
     /\ output[1].data.amount = input.amount
     /\ output[1].data.description = output[1].data.category

\* C22 happens: a category given with white space after it, which the
\* record does not keep, was parsed
C22_Witness ==
  /\ input.form = "category"
  /\ input.run = T_Food \o <<" ">>
  /\ output # NoText
  /\ output[1].data.category = T_Food
  /\ output[1].data.amount = 25500

\* C23: for every input "$<amount>" without leading letters parse returns
\* category "Uncategorized", needsCategorizationHelp true, the amount of the
\* token, and as description the whole cleaned input (mentions removed,
\* trimmed).
C23_AmountOnlyForm ==
  (input.form = "amount" /\ output # NoText)
  => /\ output[1].ok
     /\ output[1].help
     /\ output[1].data.category = T_Uncategorized
     /\ output[1].data.amount = input.amount
     /\ output[1].data.description = input.cleaned

\* C23 happens: "$45" after a mention was parsed
C23_Witness ==
  /\ input.form = "amount"
  /\ startsWith(input.text, T_mention)
  /\ output # NoText
  /\ output[1].data.description = T_45
  /\ output[1].data.amount = 45000

\* C24: the category grammar applies to a leading run of letters and spaces
\* only: when the cleaned input begins with an amount token, parse takes the
\* amount-only path, so the amount is that first token and
\* needsCategorizationHelp is true, whatever follows the token.
C24_AmountFirstIsAmountOnly ==
  (input.form = "amount_first" /\ output # NoText)
  => /\ output[1].ok
     /\ output[1].help
     /\ output[1].data.amount = input.amount

\* d made the append and nothing else; when the call succeeded the row it
\* wrote has the category "Other" and the last reply is the confirmation,
\* with no error reply before it
AppendedAsOther(d) ==
  /\ d.expenseData.category = T_Other
  /\ Len(d.calls) = 1
  /\ d.calls[1].kind = "append"
  /\ d.calls[1].ok
     => /\ sheet[Len(sheet)].id = d.calls[1].id
        /\ sheet[Len(sheet)].category = T_Other
        /\ LastReply(d).kind = "recorded"
        /\ \A k \in DOMAIN d.replies : d.replies[k].kind # "error"

\* C25: when an expense needs categorization help and the Insight Service
\* is unavailable, categorize is not invoked, the record is appended with
\* category "Other" and the reply is the normal confirmation; when the
\* service is available and its call fails, the record is appended with
\* category "Other" as well and no error reply is sent.
C25_InsightDegradesToOther ==
  \A d \in done :
    (d.op.type = "none" /\ d.help /\ ~Warned(d))
    => /\ ~gemini
          => /\ d.insight = "none"
             /\ d.replies = << LastReply(d) >>
             /\ AppendedAsOther(d)
       /\ d.insight = "failed"
          => /\ gemini
             /\ AppendedAsOther(d)

\* C25 happens: the call to the Insight Service failed and the expense was
\* recorded under "Other"
C25_Witness ==
  \E d \in done :
    /\ d.content = T_45
    /\ d.insight = "failed"
    /\ d.calls # << >>
    /\ d.calls[1].ok
    /\ sheet[Len(sheet)].category = T_Other
    /\ LastReply(d).kind = "recorded"

\* the rows of the Ledger that hold a record
Records == { j \in DOMAIN sheet : sheet[j].len > 0 }

\* C26: every record written to the Ledger, by append or by updateAt, has a
\* non-negative amount: no sequence of expense messages and edit replies
\* leaves a stored record with a negative amount.
C26_StoredAmountNonNegative ==
  \A j \in Records : sheet[j].amount >= 0

\* the text is DD/MM/YYYY, zero-padded, of a day the calendar has
CanonicalDate(text) ==
  /\ Len(text) = 10
  /\ text[3] = "/" /\ text[6] = "/"
  /\ \A k \in {1, 2, 4, 5, 7, 8, 9, 10} : IsDigit(text[k])
  /\ LET d == DigitsVal(SubSeq(text, 1, 2))
         m == DigitsVal(SubSeq(text, 4, 5))
         y == DigitsVal(SubSeq(text, 7, 10))
     IN  /\ m \in 1 .. 12
         /\ d >= 1
         /\ formatDateToIST(Num(DaysFromCivil(y, m, d))) = text

\* C27: every record written to the Ledger, by append or by updateAt, has a
\* date that is a valid calendar date in zero-padded DD/MM/YYYY form, after
\* any sequence of expense messages and edit replies.
C27_StoredDateCanonical ==
  \A j \in Records : CanonicalDate(sheet[j].date)

\* the records of the Ledger the run starts on that are dated outside the
\* 30-day window
OutOfWindow ==
  { WindowSheet[j].id :
      j \in { k \in DOMAIN WindowSheet : ~InWindow(WindowSheet[k].date, 30) } }

\* C28: the edit/delete lookup returns the stored records of the trailing
\* 30-day window that match the arguments; a record dated outside the window
\* is never a candidate, and so it is not edited or deleted through this
\* path.
C28_LookupStaysInWindow ==
  \A d \in Invocations :
    /\ \A k \in DOMAIN d.expenses : d.expenses[k].id \notin OutOfWindow
    /\ \A k \in DOMAIN d.calls :
         (d.calls[k].ok /\ d.calls[k].kind \in {"delete", "update"})
         => d.calls[k].id \notin OutOfWindow

\* d handled a budget command that gives an amount
SetsBudget(d) ==
  /\ d.cmd = C_budget
  /\ Len(splitWs(trim(d.content))) >= 3

\* C29: `!budget <category>` without an amount only checks: it never
\* creates, changes or removes the stored budget of any category; only
\* `!budget <category> <amount>` writes, and it writes only the entry of
\* that category, keyed case-insensitively.
C29_OnlyBudgetSetWrites ==
  [][ budgets' # budgets
      => \E d \in done' :
           /\ SetsBudget(d)
           /\ \A e \in (budgets' \ budgets) \cup (budgets \ budgets') :
                e.key = toLowerCase(d.category) ]_vars

\* the last n elements of a, none for n <= 0
LastN(a, n) ==
  IF n <= 0 THEN << >>
  ELSE IF n >= Len(a) THEN a
  ELSE SubSeq(a, Len(a) - n + 1, Len(a))

\* the number a list command asks for: its integer argument, 5 without one
Asked(content) ==
  LET args == splitWs(trim(content))
  IN  IF Len(args) > 1 THEN Val(parseInt(args[2])) ELSE 5

\* C30: `!recent n` replies with at most n expenses, the last n records in
\* store order of the 30-day window, for every integer n the user gives
\* (positive, zero or negative); without an argument it lists at most 5.
C30_RecentListsLastN ==
  \A d \in done :
    (d.cmd \in {C_list, C_recent} /\ ~d.failed)
    => /\ Len(d.expenses) <= Asked(d.content)
       /\ d.expenses = LastN(fetchRecentExpenses(sheet, 30), Asked(d.content))

\* the invocation made an append
Appended(d) == \E k \in DOMAIN d.calls : d.calls[k].kind = "append"

\* the invocation went to the command dispatcher or to the expense parser
Dispatched(d) ==
  \/ d.cmd # NoText
  \/ d.pc \in {"find1", "find2", "dup_read", "dup_wait", "categorize",
               "enhance", "append", "budget_read", "budget_write",
               "recent_read"}
  \/ Appended(d)
  \/ \E k \in DOMAIN d.replies :
       d.replies[k].kind \in {"cannot_parse", "recorded", "duplicate_warning"}

\* C31: while a user has a pending entry, every message of that user is
\* consumed by the pending-operation handler and never reaches the command
\* dispatcher or the expense parser, so that, from the step that sets the
\* entry to the step that clears it, no append is made and no lookup is
\* started for that user.
C31_PendingConsumesMessages ==
  [][\A u \in Users :
       pendingOperations[u].type # "none" =>
         /\ \A s \in Slots :
              (inv[s].pc = "idle" /\ inv'[s].user = u) => ~Dispatched(inv'[s])
         /\ \A d \in done' :
              d.user = u =>
                /\ d.op.type # "none" => ~Dispatched(d)
                /\ ~Appended(d)]_vars

\* the invocation ended by sending the selection prompt
Prompted(d) == d.replies # << >> /\ LastReply(d).kind = "select_list"

\* C32: in every delete_select or edit_select entry the candidates and the
\* row numbers have the same length, the i-th row number is the row of the
\* i-th candidate, and the count the selection prompt announces equals the
\* number of candidates it lists and the number of indices accepted.
C32_SelectEntryAligned ==
  \A d \in done :
    Prompted(d) =>
      LET op == pendingOperations[d.user]
      IN  /\ op.type \in {"delete_select", "edit_select"}
          /\ Len(op.rows) = Len(op.expenses)
          /\ \A k \in DOMAIN op.expenses :
               IdAt(sheet, ArrayAt(op.rows, k - 1)) = op.expenses[k].id
          /\ LastReply(d).count = LastReply(d).listed
          /\ LastReply(d).count = Len(op.expenses)

\* the fields of a record an edit can choose, and the value a record or a
\* row holds for one
FieldOf(e, field) ==
  IF field = T_category THEN << e.category >>
  ELSE IF field = T_amount THEN << e.amount >>
  ELSE IF field = T_date THEN << e.date >>
  ELSE << e.description >>

\* the step is the successful updateAt of the edit in slot s
EditCompletes(s) ==
  /\ inv[s].pc = "edit_call"
  /\ inv'[s].pc = "clear"
  /\ inv'[s].calls[Len(inv'[s].calls)].ok

\* C33: a completed edit writes only the target row: the record written
\* equals the candidate captured at lookup in every field but the chosen
\* one, timestamp included, and every other row of the Ledger is as before.
C33_EditWritesChosenFieldOnly ==
  [][\A s \in Slots :
       EditCompletes(s) =>
         LET op == inv[s].op
             n  == op.rowNumber - 1
         IN  /\ Len(sheet') = Len(sheet)
             /\ n \in DOMAIN sheet
             /\ \A j \in DOMAIN sheet : j # n => sheet'[j] = sheet[j]
             /\ \A f \in ValidFields \ {op.field} :
                  FieldOf(sheet'[n], f) = FieldOf(op.expenseData, f)
             /\ sheet'[n].timestamp = op.expenseData.timestamp]_vars

\* C33 happens: the edit of the category of the Food record wrote "Fuel"
\* over it, and the amount, date, description and timestamp of the row and
\* the Taxi row above it are as they were
C33_Witness ==
  \E d \in done :
    /\ d.op.type = "edit_value"
    /\ d.op.field = T_category
    /\ d.content = T_Fuel
    /\ OneCall(d, "update", 3)
    /\ d.calls[1].ok
    /\ sheet[2] = [Food(2, D_2May, 10000) EXCEPT !.category = trim(T_Fuel)]
    /\ sheet[1] = Taxi(1, D_1May, 5000)

\* the entry is one of the edit workflow
EditPending(op) == op.type \in {"edit_select", "edit_field", "edit_value"}

\* the invocation called updateAt
Updated(d) == \E k \in DOMAIN d.calls : d.calls[k].kind = "update"

\* C34: once an edit is pending, the entry of the user is removed only by a
\* handler invocation that called updateAt, whether the call succeeded or
\* failed: a step that takes the user from an edit entry to no entry ends
\* such an invocation of that user.
C34_EditEndsOnlyByUpdate ==
  [][\A u \in Users :
       (/\ EditPending(pendingOperations[u])
        /\ pendingOperations'[u].type = "none")
       => \E d \in done' : d.user = u /\ Updated(d)]_vars

\* the invocation appended its record in this step
Appends(d) ==
  /\ d.calls # << >>
  /\ d.calls[Len(d.calls)].kind = "append"
  /\ d.calls[Len(d.calls)].ok

\* the stored row is a probable duplicate of the record of d that the
\* duplicate-check read of d did not return: it was appended after that read
Overlapped(row, d) ==
  /\ ~d.failed
  /\ IsDuplicateOf(ExpenseOfRow(row), d.expenseData)
  /\ row.id \notin { e.id : e \in Range(d.recentExpenses) }

\* no Ledger call has failed so far
NoCallFailed == faults = MaxFaults

\* C35: when two handlers of expense messages that are probable duplicates
\* of each other overlap, the Ledger does not come to hold both records
\* without a duplicate confirmation answered "yes": an invocation that
\* appends next to a stored probable duplicate its read did not see was
\* warned and answered "yes", or the stored record was (the warning was then
\* about a third stored record, a probable duplicate of it).  Runs in which
\* a Ledger call failed are left aside.
C35_NoUnconfirmedDuplicatePair ==
  [][\A d \in done' :
       (Appends(d) /\ NoCallFailed') =>
         \A j \in DOMAIN sheet :
           Overlapped(sheet[j], d) =>
             \/ Warned(d) /\ IsYes(d.answer)
             \/ \E k \in DOMAIN sheet :
                  /\ k # j
                  /\ IsDuplicateOf(ExpenseOfRow(sheet[k]),
                                   ExpenseOfRow(sheet[j]))]_vars

\* the step delivers the message that resolves the duplicate-confirmation
\* wait of the invocation in slot r
Answered(r) ==
  /\ inv[r].pc = "dup_wait"
  /\ \/ inv'[r].answer # NoText
     \/ \E d \in done' :
          /\ d.answer # NoText
          /\ d.user = inv[r].user
          /\ d.expenseData = inv[r].expenseData

\* C36: a "yes" or "no" that resolves the duplicate-confirmation wait of a
\* user has no other effect: the step that delivers it starts no handler
\* invocation of its own (none is in flight or has returned that was not
\* resolved by it), so that it sends no reply of its own and makes no Ledger
\* call, and it leaves the pending entries as they are.
C36_AnswerOnlyResolvesWait ==
  [][\A r \in Slots :
       Answered(r) =>
         /\ \A s \in Slots : inv[s].pc = "idle" => inv'[s].pc = "idle"
         /\ \A d \in done' : d.answer # NoText
         /\ pendingOperations' = pendingOperations
         /\ sheet' = sheet]_vars

\* the invocation sent a reply, and after a duplicate warning another one
Replied(d) ==
  /\ d.replies # << >>
  /\ Warned(d) => LastReply(d).kind # "duplicate_warning"

\* C37: when every collaborator call eventually returns or fails, every
\* handler invocation terminates, and it has then sent at least one reply;
\* a duplicate-confirmation wait is one of the awaits an invocation is
\* suspended in, so it always ends, by a matching reply or by its timeout,
\* and the handler replies after it.
C37_HandlersTerminateWithReply ==
  /\ \A s \in Slots : (inv[s].pc # "idle") ~> (inv[s].pc = "idle")
  /\ [](\A d \in done : Replied(d))

\* C37 happens: nobody answered the duplicate warning, the wait ended by
\* its timeout and the handler returned after telling the author
C37_Witness ==
  \E d \in done :
    /\ Warned(d)
    /\ d.answer = NoText
    /\ d.calls = << >>
    /\ Len(d.replies) = 2
    /\ LastReply(d).kind = "no_confirmation"

=============================================================================
